---- MODULE Spec2Model ----
(***************************************************************************)
(* Micro-Market Pulse server (micro-market-pulse/server/index.js): rolling *)
(* price / sentiment series per symbol, the per-tick signal computation,   *)
(* the sentiment-spike detector with its delayed resolution timers, the    *)
(* bounded impact log and the /signals read.                               *)
(*                                                                         *)
(* Time is Date.now() in milliseconds.  A handler runs to completion on    *)
(* the single JavaScript thread, so each handler is one atomic action and  *)
(* every Date.now() it reads is the same value `now`; the clock moves      *)
(* only between handlers and never backwards.                              *)
(*                                                                         *)
(* Numbers: prices and sentiment scores are integers (a score counts units *)
(* of 0.001).  A z-score is kept exactly, as the triple <<a, m, q>> that   *)
(* stands for the real number a * sqrt(m) / sqrt(q); comparisons and the   *)
(* toFixed roundings are decided on integers, in exact arithmetic.  Where  *)
(* the exact variance of a series is zero, rounding error is all that is   *)
(* left of the z-score, and zScore is followed in IEEE-754 doubles.        *)
(*                                                                         *)
(* Also modelled: the polling client (client/src/App.jsx: a poll of        *)
(* /signals and the auto-summary trigger) and, of the earlier server       *)
(* variant unnamed/part_001, the lead-lag hint quickLeadLag and the        *)
(* polling resolver processPendingImpacts.                                 *)
(*                                                                         *)
(* The energy cache (fetchEnergyData) is modelled by the symbols it holds  *)
(* data for and by which upstream answer filled it.  Not modelled: the     *)
(* `energy` and `analytics` fields derived from it in snapshots, records   *)
(* and bodies, which no handler here reads back.                           *)
(*                                                                         *)
(* Specifications: Spec (the detector from start-up), SpecTick (one tick   *)
(* over series of any age), SpecBurst (ingestion near capacity), SpecLog   *)
(* (the impact log after many resolutions), SpecLate (a late resolution),  *)
(* SpecRead (/signals reads), SpecSeries (the series against the log of    *)
(* appends), SpecCross (the instruments fed apart), SpecLag (the lead-lag  *)
(* hint), SpecPoll (the polling resolver), SpecClient (a polling client),  *)
(* SpecGuard (spikes without a reference price) and SpecEnergy (the energy *)
(* cache).                                                                 *)
(***************************************************************************)
EXTENDS Integers, Sequences, FiniteSets, TLC

VARIABLES
    now,          \* Date.now()
    priceStore,   \* [SYMBOLS -> Seq([t, v])]
    infoStore,    \* [SYMBOLS -> Seq([t, v])]
    signalCache,  \* [SYMBOLS -> snapshot or NoSnapshot]
    lastSpikeAt,  \* [SYMBOLS -> time]
    impacts,      \* Seq(impact record)
    timers,       \* pending setTimeout callbacks (their captured values), oldest first
    response,     \* body of the last /signals response
    pendingReads, \* /signals requests awaiting fetchEnergyData, oldest first
    sinceRead,    \* ghost: the handlers that have run since the last response
    client,       \* the polling client (App.jsx): its refs and its summary
    energyData,   \* the energy cache: NoEnergy for null, else what it holds per symbol
    lastEnergyFetch, \* the start time of the last fetch that filled the cache
    appended,     \* ghost: per series, every sample appended to it, in order
    spikes,       \* ghost: every spike confirmation so far, oldest first
    history,      \* ghost: every record ever pushed to impacts, with its push time
    lastOp        \* ghost: the handler that ran last, and what it evicted

vars == <<now, priceStore, infoStore, signalCache, lastSpikeAt, impacts,
          timers, response, pendingReads, sinceRead, client, energyData,
          lastEnergyFetch, appended, spikes, history, lastOp>>

-----------------------------------------------------------------------------
(* Program constants *)

SYMBOLS == {"BTC", "ETH"}
\* the order of `for (const sym of SYMBOLS)`
SymbolOrder == <<"BTC", "ETH">>

WINDOW_MS == 120000
IMPACT_WINDOW_MS == 60000
MIN_SEP_MS == 15000
\* SENT_SPIKE_Z = 1.2, in hundredths
SENT_SPIKE_Z_X100 == 120
\* strong: Math.abs(divergence) >= 1.5 (in hundredths) && infoCount >= 3
STRONG_Z_X100 == 150
MIN_INFO == 3
\* delta1m / count1m look back 60_000 ms
MINUTE_MS == 60000
\* `if (store.length > 2000) store.splice(0, 500)`
SERIES_HIGH_WATER == 2000
SERIES_DROP == 500
\* `if (impacts.length > 100) impacts.shift()`
IMPACTS_CAP == 100
\* `impacts.slice(-10)`
IMPACTS_SLICE == 10
\* zScore's `series.length < 5`
Z_MIN_POINTS == 5
\* a sample value v stands for the Number v / unit: prices (parseFloat(data.p))
\* are whole, sentiment scores (VADER's compound) have three decimals
PRICE_UNIT == 1
SCORE_UNIT == 1000

-----------------------------------------------------------------------------
(* Bounds of the model *)

\* Date.now() when the process starts
StartTime == 2000000
\* the clock stops advancing this many milliseconds after StartTime
MaxElapsed == 75000
\* samples a series may hold before the feeds stop appending to it
MaxPriceLen == 2
MaxInfoLen == 6
\* page edits arrive during the first MaxEditElapsed milliseconds, and the
\* edits that find fewer than WarmLen samples in a series are neutral
MaxEditElapsed == 0
WarmLen == 5

\* the clock is observed on a grid
AdvanceSteps == {15000, 60000}
\* trade prices, and sentiment scores in units of 0.001
PriceValues == {100, 103}
InfoValues == {0, 1}
\* the symbol sets a page title hits, and the symbols that trade
HitSets == {{"BTC", "ETH"}}
TradeSyms == {"BTC"}

\* samples a series drawn for a single tick may hold
MaxSeriesLen == 3
\* how old those samples are: fresh, around the one-minute cutoff and around
\* the eviction cutoff
SampleAges == {0, MINUTE_MS, MINUTE_MS + 1, WINDOW_MS - 1, WINDOW_MS, WINDOW_MS + 1}

\* samples one burst may append to a series
MaxBurst == 2
\* how far below the high-water mark a series is when the burst starts
BurstHeadrooms == {0, 1}

\* with series near capacity, the clock stops this long after StartTime
MaxSeriesElapsed == 118001

\* with the two instruments fed apart, the clock stops this long after StartTime
MaxCrossElapsed == 60000

\* the time the energy cache is followed for
MaxEnergyElapsed == 7200000

\* the time spikes without a reference price are followed for
MaxGuardElapsed == 120000

\* the time the polling client is followed for
MaxClientElapsed == 60000

\* the time the polling resolver is followed for
MaxPollElapsed == 120000

\* samples a series may hold while the lead-lag hint is read
MaxLagLen == 10

\* /signals requests that may await energy data at once
MaxPendingReads == 1
\* while clients read, the clock stops this long after StartTime
MaxReadElapsed == 60000

\* the clock of a late resolution: it stops this long after StartTime
MaxLateElapsed == 180000
\* and is observed once a minute
LateSteps == {60000}

\* resolutions the impact log has seen when its specification starts
LogFills == {0, IMPACTS_SLICE - 1, IMPACTS_CAP - 1, IMPACTS_CAP}

-----------------------------------------------------------------------------
(* Helpers *)

Last(s) == s[Len(s)]

Abs(x) == IF x < 0 THEN 0 - x ELSE x

Min(a, b) == IF a < b THEN a ELSE b

Max(a, b) == IF a > b THEN a ELSE b

\* arr.slice(-n)
SliceLast(s, n) == SubSeq(s, Max(1, Len(s) - n + 1), Len(s))

\* arr.splice(0, n): what is left
DropFirst(s, n) == SubSeq(s, Min(n, Len(s)) + 1, Len(s))

\* the sum of s[lo..hi], by halves
RECURSIVE sumRange(_, _, _)
sumRange(s, lo, hi) ==
    IF lo > hi THEN 0
    ELSE IF lo = hi THEN s[lo]
    ELSE sumRange(s, lo, (lo + hi) \div 2) + sumRange(s, (lo + hi) \div 2 + 1, hi)

SumSeq(s) == sumRange(s, 1, Len(s))

RECURSIVE gcd(_, _)
gcd(x, y) == IF y = 0 THEN x ELSE gcd(y, x % y)

RECURSIVE isqrtIn(_, _, _)
isqrtIn(n, lo, hi) ==
    IF lo = hi THEN lo
    ELSE LET mid == (lo + hi + 1) \div 2
         IN  IF mid * mid <= n THEN isqrtIn(n, mid, hi) ELSE isqrtIn(n, lo, mid - 1)

\* floor(sqrt(n)) for 0 <= n < 46340^2
isqrt(n) == isqrtIn(n, 0, IF n < 1048576 THEN 1023 ELSE 46339)

\* round(num / den) to the nearest integer, halves away from zero (den > 0):
\* what Number(x.toFixed(k)) yields for x * 10^k = num / den
RoundDiv(num, den) ==
    LET q == (2 * Abs(num) + den) \div (2 * den)
    IN  IF num < 0 THEN 0 - q ELSE q

-----------------------------------------------------------------------------
(* Rolling series store and statistics *)

\* while (arr.length && arr[0].t < cutoff) arr.shift()
RECURSIVE pruneFrom(_, _)
pruneFrom(arr, cutoff) ==
    IF Len(arr) > 0 /\ arr[1].t < cutoff
    THEN pruneFrom(Tail(arr), cutoff)
    ELSE arr

\* `if` for `while`: only the head is tested
pruneOnce(arr, t) ==
    IF Len(arr) > 0 /\ arr[1].t < t - WINDOW_MS THEN Tail(arr) ELSE arr

prune(arr, t) == pruneFrom(arr, t - WINDOW_MS)

recent1m(series, t) == SelectSeq(series, LAMBDA d : d.t >= t - MINUTE_MS)

\* the change over the whole series, whatever the age of its samples
delta1mWhole(series, t) ==
    IF Len(series) = 0 THEN 0 ELSE Last(series).v - series[1].v

delta1m(series, t) ==
    LET recent == recent1m(series, t)
    IN  IF Len(recent) = 0 THEN 0 ELSE Last(recent).v - recent[1].v

count1m(series, t) == Len(recent1m(series, t))

\* the push without the capacity check
pushUncapped(store, sample) == Append(store, sample)

\* the capacity check dropping the oldest half
pushCappedHalf(store, sample) ==
    IF Len(store) + 1 > SERIES_HIGH_WATER
    THEN DropFirst(Append(store, sample), (Len(store) + 1) \div 2)
    ELSE Append(store, sample)

\* the capacity check dropping the newest samples instead of the oldest
pushCappedNewest(store, sample) ==
    LET pushed == Append(store, sample)
    IN  IF Len(pushed) > SERIES_HIGH_WATER
        THEN SubSeq(pushed, 1, Len(pushed) - SERIES_DROP)
        ELSE pushed

\* store.push(sample); if (store.length > 2000) store.splice(0, 500)
pushCapped(store, sample) ==
    LET pushed == Append(store, sample)
    IN  IF Len(pushed) > SERIES_HIGH_WATER
        THEN DropFirst(pushed, SERIES_DROP)
        ELSE pushed

\* ps.slice(1).map((d, i) => ({ t: d.t, v: d.v - ps[i].v })), [] below 2 samples;
\* v is the exact difference, and the Number is fl(to) - fl(from)
firstDiffs(s) ==
    IF Len(s) >= 2
    THEN [i \in 1..(Len(s) - 1) |->
            [t |-> s[i + 1].t, v |-> s[i + 1].v - s[i].v,
             from |-> s[i].v, to |-> s[i + 1].v]]
    ELSE << >>

ZeroZ == [a |-> 0, m |-> 1, q |-> 1]

\* zScore(series).z as <<a, m, q>>, the real a * sqrt(m) / sqrt(q):
\*   latest - mean = (n*latest - S) / n,  varsum = Q / (n*n*m),
\*   with S the sum, Q the sum of (n*b - S)^2, m = max(1, n - 1);
\*   sd = sqrt(varsum) || 1, and Q = 0 makes latest = mean, so z = 0.
zOfSums(n, latest, S, Q) ==
    IF Q = 0 THEN ZeroZ
    ELSE [a |-> n * latest - S, m |-> Max(1, n - 1), q |-> Q]

sumSqDev(series, n, S) ==
    SumSeq([i \in 1..n |-> (n * series[i].v - S) * (n * series[i].v - S)])

zOfSum(series, n, S) == zOfSums(n, series[n].v, S, sumSqDev(series, n, S))

-----------------------------------------------------------------------------
(* IEEE-754 double arithmetic of zScore.  A double is a sign and a          *)
(* magnitude; the magnitude is the integer |x| * 2^70 in six 14-bit limbs,  *)
(* least significant first (every double from 2^-17 up to 2^14 in           *)
(* magnitude is such an integer).                                           *)

LIMB_BITS == 14
LIMB == 16384
\* a double has 53 significant bits
MANT_BITS == 53

bnZero == <<0, 0, 0, 0, 0, 0>>

\* 2^i
bnPow2(i) ==
    (LET j == i \div LIMB_BITS + 1
         p == 2 ^ (i % LIMB_BITS)
     IN  <<IF j = 1 THEN p ELSE 0, IF j = 2 THEN p ELSE 0, IF j = 3 THEN p ELSE 0,
           IF j = 4 THEN p ELSE 0, IF j = 5 THEN p ELSE 0, IF j = 6 THEN p ELSE 0>>)

\* X + Y, from limb j up with a carry
RECURSIVE bnAddFrom(_, _, _, _)
bnAddFrom(X, Y, j, carry) ==
    IF j > Len(X) THEN << >>
    ELSE <<(X[j] + Y[j] + carry) % LIMB>>
            \o bnAddFrom(X, Y, j + 1, (X[j] + Y[j] + carry) \div LIMB)

\* X - Y for X >= Y, from limb j up with a borrow
RECURSIVE bnSubFrom(_, _, _, _)
bnSubFrom(X, Y, j, borrow) ==
    IF j > Len(X) THEN << >>
    ELSE IF X[j] - Y[j] - borrow < 0
         THEN <<X[j] - Y[j] - borrow + LIMB>> \o bnSubFrom(X, Y, j + 1, 1)
         ELSE <<X[j] - Y[j] - borrow>> \o bnSubFrom(X, Y, j + 1, 0)

\* X < Y, comparing from limb j down
RECURSIVE bnLessFrom(_, _, _)
bnLessFrom(X, Y, j) ==
    IF j = 0 THEN FALSE
    ELSE IF X[j] # Y[j] THEN X[j] < Y[j]
    ELSE bnLessFrom(X, Y, j - 1)

bnDivStep(rest, digit) == [q |-> Append(rest.q, digit), r |-> rest.r]

\* long division of the limbs 1..j of N by a small d > 0, given the remainder
\* left by the limbs above j: the quotient limbs and the final remainder
RECURSIVE bnDivFrom(_, _, _, _)
bnDivFrom(N, d, j, rem) ==
    IF j = 0 THEN [q |-> << >>, r |-> rem]
    ELSE bnDivStep(bnDivFrom(N, d, j - 1, (rem * LIMB + N[j]) % d),
                   (rem * LIMB + N[j]) \div d)

\* bits of a limb: the least b with x < 2^b
RECURSIVE limbBits(_)
limbBits(x) == IF x = 0 THEN 0 ELSE 1 + limbBits(x \div 2)

\* bits of N, looking for its top limb from limb j down
RECURSIVE bnBitLenFrom(_, _)
bnBitLenFrom(N, j) ==
    IF j = 0 THEN 0
    ELSE IF N[j] # 0 THEN LIMB_BITS * (j - 1) + limbBits(N[j])
    ELSE bnBitLenFrom(N, j - 1)

bnBit(N, i) == (N[i \div LIMB_BITS + 1] \div (2 ^ (i % LIMB_BITS))) % 2

\* N with its d lowest bits cleared, from limb j up
RECURSIVE bnClearLowFrom(_, _, _)
bnClearLowFrom(N, d, j) ==
    IF j > Len(N) THEN << >>
    ELSE <<IF LIMB_BITS * j <= d THEN 0
           ELSE IF LIMB_BITS * (j - 1) >= d THEN N[j]
           ELSE N[j] - (N[j] % (2 ^ (d - LIMB_BITS * (j - 1))))>>
         \o bnClearLowFrom(N, d, j + 1)

\* round to nearest, ties to even, dropping the `drop` lowest bits of N;
\* sticky: the exact value lies strictly above N
roundDrop(N, sticky, drop) ==
    IF bnBit(N, drop - 1) = 1
       /\ (sticky \/ bnClearLowFrom(N, drop - 1, 1) # N \/ bnBit(N, drop) = 1)
    THEN bnAddFrom(bnClearLowFrom(N, drop, 1), bnPow2(drop), 1, 0)
    ELSE bnClearLowFrom(N, drop, 1)

roundLen(N, sticky, len) ==
    IF len <= MANT_BITS THEN N ELSE roundDrop(N, sticky, len - MANT_BITS)

\* the magnitude of the nearest double
round53(N, sticky) == roundLen(N, sticky, bnBitLenFrom(N, Len(N)))

\* a double from its sign and magnitude (no negative zero)
dbl(neg, mag) == [neg |-> neg /\ mag # bnZero, mag |-> mag]

\* mag / n for an integer n > 0, rounded
dblQuotient(neg, d) == dbl(neg, round53(d.q, d.r # 0))

\* the double nearest to k / unit: a decimal literal read as a Number
toDouble(k, unit) ==
    dblQuotient(k < 0, bnDivFrom(<<0, 0, 0, 0, 0, Abs(k)>>, unit, Len(bnZero), 0))

\* x + y
fadd(x, y) ==
    IF x.neg = y.neg THEN dbl(x.neg, round53(bnAddFrom(x.mag, y.mag, 1, 0), FALSE))
    ELSE IF bnLessFrom(x.mag, y.mag, Len(bnZero))
         THEN dbl(y.neg, round53(bnSubFrom(y.mag, x.mag, 1, 0), FALSE))
    ELSE dbl(x.neg, round53(bnSubFrom(x.mag, y.mag, 1, 0), FALSE))

\* x - y
fsub(x, y) == fadd(x, [neg |-> ~y.neg, mag |-> y.mag])

\* x / n for an integer n > 0
fdiv(x, n) == dblQuotient(x.neg, bnDivFrom(x.mag, n, Len(bnZero), 0))

\* vals.reduce((a, b) => a + b, 0), left to right
RECURSIVE fsumFrom(_, _, _)
fsumFrom(vals, acc, i) ==
    IF i > Len(vals) THEN acc ELSE fsumFrom(vals, fadd(acc, vals[i]), i + 1)

fmean(vals) == fdiv(fsumFrom(vals, dbl(FALSE, bnZero), 1), Len(vals))

\* the doubles d.v = fl(d.to) - fl(d.from) of a series of first differences
RECURSIVE doubleDiffsFrom(_, _, _)
doubleDiffsFrom(series, unit, i) ==
    IF i > Len(series) THEN << >>
    ELSE <<fsub(toDouble(series[i].to, unit), toDouble(series[i].from, unit))>>
            \o doubleDiffsFrom(series, unit, i + 1)

\* b - mean for every b
RECURSIVE deviationsFrom(_, _, _)
deviationsFrom(vals, mean, i) ==
    IF i > Len(vals) THEN << >>
    ELSE <<fsub(vals[i], mean)>> \o deviationsFrom(vals, mean, i + 1)

\* trailing zero bits of a limb x > 0
RECURSIVE limbTz(_)
limbTz(x) == IF x % 2 = 1 THEN 0 ELSE 1 + limbTz(x \div 2)

\* trailing zero bits of N # 0, from limb j up
RECURSIVE bnTzFrom(_, _)
bnTzFrom(N, j) ==
    IF N[j] # 0 THEN LIMB_BITS * (j - 1) + limbTz(N[j]) ELSE bnTzFrom(N, j + 1)

\* the least number of trailing zero bits among the non-zero doubles ds[i..]
RECURSIVE minTzFrom(_, _, _)
minTzFrom(ds, i, least) ==
    IF i > Len(ds) THEN least
    ELSE IF ds[i].mag = bnZero THEN minTzFrom(ds, i + 1, least)
    ELSE minTzFrom(ds, i + 1, Min(least, bnTzFrom(ds[i].mag, 1)))

\* the integer d / 2^t of a double d that is a small multiple of 2^t
shifted(d, t) ==
    (LET j == t \div LIMB_BITS + 1
         r == t % LIMB_BITS
         m == d.mag[j] \div (2 ^ r)
              + (IF j < Len(d.mag) THEN d.mag[j + 1] * (2 ^ (LIMB_BITS - r)) ELSE 0)
     IN  IF d.neg THEN 0 - m ELSE m)

RECURSIVE shiftedAllFrom(_, _, _)
shiftedAllFrom(ds, t, i) ==
    IF i > Len(ds) THEN << >>
    ELSE <<shifted(ds[i], t)>> \o shiftedAllFrom(ds, t, i + 1)

\* z = (latest - mean) / sd from the deviations b - mean in a common unit:
\* varsum = sum of squares / max(1, n - 1), sd = sqrt(varsum)
zOfDeviations(devs) ==
    [a |-> Last(devs), m |-> Max(1, Len(devs) - 1),
     q |-> SumSeq([i \in 1..Len(devs) |-> devs[i] * devs[i]])]

\* every deviation zero: varsum = 0, sd = 0 || 1, z = 0 / 1; otherwise the
\* deviations are taken in units of their common power of two
zOfDoubleDeviations(ds) ==
    IF \A i \in 1..Len(ds) : ds[i].mag = bnZero THEN ZeroZ
    ELSE zOfDeviations(
            shiftedAllFrom(ds, minTzFrom(ds, 1, LIMB_BITS * Len(bnZero)), 1))

zOfDoubles(vals) == zOfDoubleDeviations(deviationsFrom(vals, fmean(vals), 1))

-----------------------------------------------------------------------------
(* zScore *)

\* the values are all equal and not zero: the exact variance is zero, and
\* the rounding of the mean decides whether latest - mean and sd are zero
roundingDecides(series) ==
    /\ series[1].v # 0
    /\ \A i \in 1..Len(series) : series[i].v = series[1].v

\* zScore without its minimum number of points
zScoreAnyLength(series, unit) ==
    IF roundingDecides(series) THEN zOfDoubles(doubleDiffsFrom(series, unit, 1))
    ELSE zOfSum(series, Len(series),
                SumSeq([i \in 1..Len(series) |-> series[i].v]))

zScore(series, unit) ==
    IF Len(series) < Z_MIN_POINTS THEN ZeroZ
    ELSE IF roundingDecides(series) THEN zOfDoubles(doubleDiffsFrom(series, unit, 1))
    ELSE zOfSum(series, Len(series),
                SumSeq([i \in 1..Len(series) |-> series[i].v]))

\* priceDiffs.length ? zScore(priceDiffs) : { z: 0 }
zOfDiffs(diffs, unit) == IF Len(diffs) > 0 THEN zScore(diffs, unit) ELSE ZeroZ

zOfStore(s, unit) == zOfDiffs(firstDiffs(s), unit)

\* Math.abs(z) >= c / 100
AbsZGe(z, c) == 10000 * z.a * z.a * z.m >= c * c * z.q

\* Number((c / 100 * z).toFixed(2)) * 100 = floor(c * |z| + 1/2) with the sign
\* of z: the largest j with 2j - 1 <= sqrt(4 * c * c * a * a * m / q)
scaledZ100(z, c) ==
    IF z.a = 0 THEN 0 ELSE
    LET r == isqrt((4 * c * c * z.a * z.a * z.m) \div z.q)
        k == (r + 1) \div 2
    IN  IF z.a < 0 THEN 0 - k ELSE k

\* Number(z.toFixed(2)) * 100
Z100(z) == scaledZ100(z, 100)

-----------------------------------------------------------------------------
(* Divergence zSent - zPrice.  A difference of two square roots is located *)
(* in units of 0.0001: each z lies in [lo, hi], hi - lo <= 1, lo = hi when *)
(* the bound is exact.  Where the enclosure leaves a rounding or threshold *)
(* boundary undecided, either outcome is allowed.                          *)

zBounds(z) ==
    IF z.a = 0 THEN [lo |-> 0, hi |-> 0, exact |-> TRUE] ELSE
    LET A == z.a * z.a * z.m
        n1 == A * 10000
        r1 == (n1 % z.q) * 10000
        N == (n1 \div z.q) * 10000 + (r1 \div z.q)
        k == isqrt(N)
        exact == (r1 % z.q = 0) /\ (k * k = N)
        up == IF exact THEN k ELSE k + 1
    IN  IF z.a < 0 THEN [lo |-> 0 - up, hi |-> 0 - k, exact |-> exact]
        ELSE [lo |-> k, hi |-> up, exact |-> exact]

\* enclosure of zSent - zPrice, from the enclosures s of zSent and p of zPrice
divBounds(s, p) == [lo |-> s.lo - p.hi, hi |-> s.hi - p.lo]

\* Number(divergence.toFixed(2)) * 100.  An inexact enclosure is the open
\* interval (lo, hi); it holds at most one rounding boundary, strictly
\* between the half-points lo + 1/2 and hi - 1/2.
RoundedDiv100(b) ==
    IF b.lo = b.hi THEN {RoundDiv(b.lo, 100)}
    ELSE {RoundDiv(2 * b.lo + 1, 200), RoundDiv(2 * b.hi - 1, 200)}

\* Math.abs(divergence) >= c / 100, as the set of truth values left possible
AbsDivGeIn(b, c) ==
    LET t == c * 100
    IN  IF b.lo = b.hi THEN {Abs(b.lo) >= t}
        ELSE IF b.lo >= t \/ b.hi <= 0 - t THEN {TRUE}
        ELSE IF b.hi <= t /\ b.lo >= 0 - t THEN {FALSE}
        ELSE {TRUE, FALSE}

\* the divergence taken from the published z-scores
divergenceOfFields(zSent, zPrice) == {Z100(zSent) - Z100(zPrice)}

\* A difference with a zero term is a single z-score, and is decided exactly.
divergence100(zSent, zPrice) ==
    IF zPrice.a = 0 THEN {Z100(zSent)}
    ELSE IF zSent.a = 0 THEN {0 - Z100(zPrice)}
    ELSE RoundedDiv100(divBounds(zBounds(zSent), zBounds(zPrice)))

\* the threshold applied to the price z-score alone
AbsDivGePriceOnly(zSent, zPrice, c) == {AbsZGe(zPrice, c)}

\* the threshold applied to the sentiment z-score alone
AbsDivGeSentOnly(zSent, zPrice, c) == {AbsZGe(zSent, c)}

AbsDivGe(zSent, zPrice, c) ==
    IF zPrice.a = 0 THEN {AbsZGe(zSent, c)}
    ELSE IF zSent.a = 0 THEN {AbsZGe(zPrice, c)}
    ELSE AbsDivGeIn(divBounds(zBounds(zSent), zBounds(zPrice)), c)

-----------------------------------------------------------------------------
(* computeSignals, per symbol *)

\* signalCache[sym] before the first tick
NoSnapshot == [symbol |-> "null"]

\* the client before its first poll
NoClient ==
    [prevRows |-> << >>, prevImpactCount |-> 0, impacts |-> << >>, polls |-> 0,
     regenerated |-> FALSE]

\* the ghost where no log of appends is kept
NotKept == [kept |-> FALSE]

\* no sample for any symbol, and one sample for sym alone
NoSamples == [s \in SYMBOLS |-> << >>]

only(sym, sample) == [s \in SYMBOLS |-> IF s = sym THEN <<sample>> ELSE << >>]

\* the ghost after a handler pushed the samples ps to the price series and is
\* to the info series
logged(ps, is) ==
    IF appended.kept
    THEN [kept |-> TRUE,
          price |-> [s \in SYMBOLS |-> appended.price[s] \o ps[s]],
          info |-> [s \in SYMBOLS |-> appended.info[s] \o is[s]]]
    ELSE appended

\* a handler notes that it has run, once there is a response to compare with
noted(op) == IF response.served THEN sinceRead \cup {op} ELSE sinceRead

\* Number((pctPriceDelta || 0).toFixed(3)) * 1000
pctPriceDelta1000(ps, t) ==
    IF Len(ps) >= 2 /\ ps[1].v # 0 /\ Last(ps).v # 0
    THEN RoundDiv(delta1m(ps, t) * 100000, ps[1].v)
    ELSE 0

\* 0.6 * zSent - 0.2 * zPrice, enclosed in units of 0.00001
predBounds(s, p) == [lo |-> 6 * s.lo - 2 * p.hi, hi |-> 6 * s.hi - 2 * p.lo]

\* Number(pred.toFixed(2)) * 100
RoundedPred100(b) ==
    IF b.lo = b.hi THEN {RoundDiv(b.lo, 1000)}
    ELSE {RoundDiv(2 * b.lo + 1, 2000), RoundDiv(2 * b.hi - 1, 2000)}

pred100(zSent, zPrice) ==
    IF zPrice.a = 0 THEN {scaledZ100(zSent, 60)}
    ELSE IF zSent.a = 0 THEN {0 - scaledZ100(zPrice, 20)}
    ELSE RoundedPred100(predBounds(zBounds(zSent), zBounds(zPrice)))

\* The snapshots one tick may write for sym, given the pruned series and their
\* z-scores.  Scaled fields: priceDelta1mPct and sentDelta1m in thousandths,
\* zSent, zPrice, divergence and predictedNextReturn in hundredths; a null
\* timestamp is 0.
Snapshots(sym, ps, is, zPrice, zSent, t) ==
    LET infoCount == count1m(is, t)
    IN  {[symbol |-> sym,
          lastPrice |-> IF Len(ps) > 0 THEN Last(ps).v ELSE 0,
          priceDelta1mPct |-> pctPriceDelta1000(ps, t),
          sentDelta1m |-> IF Len(is) > 0 THEN delta1m(is, t) ELSE 0,
          zSent |-> Z100(zSent),
          zPrice |-> Z100(zPrice),
          divergence |-> d,
          predictedNextReturn |-> pr,
          lastPriceTs |-> IF Len(ps) > 0 THEN Last(ps).t ELSE 0,
          lastInfoTs |-> IF Len(is) > 0 THEN Last(is).t ELSE 0,
          infoCount1m |-> infoCount,
          strong |-> g /\ infoCount >= MIN_INFO,
          updatedAt |-> t,
          counts |-> [price |-> Len(ps), info |-> Len(is)]] :
            d \in divergence100(zSent, zPrice),
            g \in AbsDivGe(zSent, zPrice, STRONG_Z_X100),
            pr \in pred100(zSent, zPrice)}

\* Math.abs(zSent) >= SENT_SPIKE_Z
isSpike(zSent) == AbsZGe(zSent, SENT_SPIKE_Z_X100)

\* the debounce left out: every spiking tick confirms
debouncedAlways(t, last) == TRUE

\* the debounce one millisecond longer: now - lastSpikeAt[sym] > MIN_SEP_MS
debouncedStrict(t, last) == t - last > MIN_SEP_MS

\* now - lastSpikeAt[sym] >= MIN_SEP_MS
debounced(t, last) == t - last >= MIN_SEP_MS

\* one debounce clock for all symbols: a confirmation of any symbol within
\* MIN_SEP_MS suppresses this one
confirmsShared(sym, zSent, t) ==
    isSpike(zSent) /\ \A x \in SYMBOLS : debounced(t, lastSpikeAt[x])

\* a spike is confirmed for sym on this tick
confirms(sym, zSent, t) == isSpike(zSent) /\ debounced(t, lastSpikeAt[sym])

\* p0 = lastPrice || ps.at(-1)?.v || null, with 0 for null
refPrice(ps) == IF Len(ps) > 0 THEN Last(ps).v ELSE 0

\* setTimeout(callback, IMPACT_WINDOW_MS): the values the callback closes over
\* and the earliest time it may run
scheduled(sym, ps, zSent, t) ==
    [sym |-> sym, t |-> t, zAt |-> Z100(zSent), p0 |-> refPrice(ps),
     due |-> t + IMPACT_WINDOW_MS]

\* the symbols this tick confirms a spike for, in the order of the loop
confirmedNow(zs, t) == SelectSeq(SymbolOrder, LAMBDA x : confirms(x, zs[x], t))

\* `if (p0) setTimeout(...)`
hasRefPrice(p) == p.p0 # 0

\* the confirmations of this tick, with what each captured
spikesOf(syms, pss, zs, t) ==
    [i \in 1..Len(syms) |-> scheduled(syms[i], pss[syms[i]], zs[syms[i]], t)]

newSpikes(pss, zs, t) == spikesOf(confirmedNow(zs, t), pss, zs, t)

\* a timer for every confirmation, whatever its reference price
newTimersUnguarded(confirmed) == confirmed

\* the timers this tick creates
newTimers(confirmed) == SelectSeq(confirmed, hasRefPrice)

evictedBy(old, new) ==
    SumSeq([i \in 1..Len(SymbolOrder) |->
        Len(old[SymbolOrder[i]]) - Len(new[SymbolOrder[i]])])

computeSignals ==
    \E pss \in {[s \in SYMBOLS |-> prune(priceStore[s], now)]},
       iss \in {[s \in SYMBOLS |-> prune(infoStore[s], now)]} :
    \E zp \in {[s \in SYMBOLS |-> zOfStore(pss[s], PRICE_UNIT)]},
       zs \in {[s \in SYMBOLS |-> zOfStore(iss[s], SCORE_UNIT)]} :
        /\ priceStore' = pss
        /\ infoStore' = iss
        /\ signalCache' \in
              {c \in [SYMBOLS -> UNION {Snapshots(s, pss[s], iss[s], zp[s], zs[s], now) :
                                          s \in SYMBOLS}] :
                  \A s \in SYMBOLS : c[s].symbol = s}
        /\ lastSpikeAt' = [s \in SYMBOLS |->
              IF confirms(s, zs[s], now) THEN now ELSE lastSpikeAt[s]]
        /\ \E confirmed \in {newSpikes(pss, zs, now)} :
            /\ timers' = timers \o newTimers(confirmed)
            /\ spikes' = spikes \o confirmed
        /\ lastOp' = [op |-> "tick",
                      evicted |-> evictedBy(priceStore, pss) + evictedBy(infoStore, iss)]
        /\ sinceRead' = noted("tick")
        /\ UNCHANGED <<now, impacts, response, pendingReads, client, appended,
                       history,
                       energyData, lastEnergyFetch>>

-----------------------------------------------------------------------------
(* The resolution callback *)

\* the change taken relative to the later price
retPctOfAfter(p0, p1) == RoundDiv((p1 - p0) * 100000, p1)

\* Number(retPct.toFixed(3)) * 1000
retPct1000(p0, p1) == RoundDiv((p1 - p0) * 100000, p0)

\* p1 without the fallback to p0
priceAfterOrZero(store, p0) == IF Len(store) > 0 THEN Last(store).v ELSE 0

\* p1 = priceStore[sym].at(-1)?.v || p0
priceAfter(store, p0) ==
    IF Len(store) > 0 /\ Last(store).v # 0 THEN Last(store).v ELSE p0

impactRecord(p, store) ==
    LET p1 == priceAfter(store, p.p0)
    IN  [sym |-> p.sym, t |-> p.t, zSentAtSpike |-> p.zAt,
         retPct60s |-> retPct1000(p.p0, p1),
         priceAtSpike |-> p.p0, priceAfter60s |-> p1]

\* the push without the shift
pushImpactUnbounded(log, rec) == Append(log, rec)

\* impacts.push(rec); if (impacts.length > 100) impacts.shift()
pushImpact(log, rec) ==
    LET pushed == Append(log, rec)
    IN  IF Len(pushed) > IMPACTS_CAP THEN Tail(pushed) ELSE pushed

\* the callback run at once instead of after the delay
timerDueAtOnce(p) == TRUE

\* the timer may run once its delay has passed
timerDue(p) == now >= p.due

\* a repeating timer: the callback stays pending after it has run
afterFireRepeating(pending) == pending

\* a timer runs once: the timers left pending when the oldest one has run
afterFire(pending) == Tail(pending)

\* a callback that restarts the debounce of its symbol when it runs
resolveResettingDebounce ==
    /\ timers # << >>
    /\ timerDue(Head(timers))
    /\ \E rec \in {impactRecord(Head(timers), priceStore[Head(timers).sym])} :
        /\ impacts' = pushImpact(impacts, rec)
        /\ history' = Append(history, [rec |-> rec, at |-> now])
        /\ lastOp' = [op |-> "resolve", evicted |-> Len(impacts) + 1 - Len(impacts')]
    /\ timers' = afterFire(timers)
    /\ lastSpikeAt' = [lastSpikeAt EXCEPT ![Head(timers).sym] = now]
    /\ sinceRead' = noted("resolve")
    /\ UNCHANGED <<now, priceStore, infoStore, signalCache, response,
                   pendingReads, client, appended, spikes,
                   energyData, lastEnergyFetch>>

\* The timers all have the delay IMPACT_WINDOW_MS, so they run in the order
\* they were set: the callback that runs is the oldest pending one.
resolve ==
    /\ timers # << >>
    /\ timerDue(Head(timers))
    /\ \E rec \in {impactRecord(Head(timers), priceStore[Head(timers).sym])} :
        /\ impacts' = pushImpact(impacts, rec)
        /\ history' = Append(history, [rec |-> rec, at |-> now])
        /\ lastOp' = [op |-> "resolve", evicted |-> Len(impacts) + 1 - Len(impacts')]
    /\ timers' = afterFire(timers)
    /\ sinceRead' = noted("resolve")
    /\ UNCHANGED <<now, priceStore, infoStore, signalCache, lastSpikeAt, response,
                   pendingReads, client, appended, spikes,
                   energyData, lastEnergyFetch>>

-----------------------------------------------------------------------------
(* Ingestion handlers *)

\* a trade handler that also refreshes lastPrice in the published snapshot
binanceMessageRefreshing(sym, p) ==
    /\ priceStore' = [priceStore EXCEPT ![sym] = pushCapped(@, [t |-> now, v |-> p])]
    /\ signalCache' = [signalCache EXCEPT ![sym] =
          IF @.symbol = "null" THEN @ ELSE [@ EXCEPT !.lastPrice = p]]
    /\ lastOp' = [op |-> "binance",
                  evicted |-> Len(priceStore[sym]) + 1 - Len(priceStore'[sym])]
    /\ sinceRead' = noted("binance")
    /\ appended' = logged(only(sym, [t |-> now, v |-> p]), NoSamples)
    /\ UNCHANGED <<now, infoStore, lastSpikeAt, impacts, timers,
                   response, pendingReads, client, spikes, history,
                   energyData, lastEnergyFetch>>

\* startBinance's message handler, for a trade of sym at price p
binanceMessage(sym, p) ==
    /\ priceStore' = [priceStore EXCEPT ![sym] = pushCapped(@, [t |-> now, v |-> p])]
    /\ lastOp' = [op |-> "binance",
                  evicted |-> Len(priceStore[sym]) + 1 - Len(priceStore'[sym])]
    /\ sinceRead' = noted("binance")
    /\ appended' = logged(only(sym, [t |-> now, v |-> p]), NoSamples)
    /\ UNCHANGED <<now, infoStore, signalCache, lastSpikeAt, impacts, timers,
                   response, pendingReads, client, spikes, history,
                   energyData, lastEnergyFetch>>

\* startWikimedia's onmessage, for a title that hits the symbols `hits`
wikimediaMessage(hits, score) ==
    /\ infoStore' = [s \in SYMBOLS |->
          IF s \in hits THEN pushCapped(infoStore[s], [t |-> now, v |-> score])
          ELSE infoStore[s]]
    /\ lastOp' = [op |-> "wikimedia",
                  evicted |-> SumSeq([i \in 1..Len(SymbolOrder) |->
                      IF SymbolOrder[i] \in hits
                      THEN Len(infoStore[SymbolOrder[i]]) + 1 - Len(infoStore'[SymbolOrder[i]])
                      ELSE 0])]
    /\ sinceRead' = noted("wikimedia")
    /\ appended' = logged(NoSamples,
          [s \in SYMBOLS |-> IF s \in hits THEN <<[t |-> now, v |-> score]>> ELSE << >>])
    /\ UNCHANGED <<now, priceStore, signalCache, lastSpikeAt, impacts, timers,
                   response, pendingReads, client, spikes, history,
                   energyData, lastEnergyFetch>>

\* pollNews after the fetch: one push, with its capacity check, per headline
\* that names a symbol (normalizeSymFromText yields null for the others)
RECURSIVE pushArticles(_, _, _)
pushArticles(store, articles, t) ==
    IF articles = << >> THEN store
    ELSE pushArticles(
            IF Head(articles).sym \in SYMBOLS
            THEN [store EXCEPT ![Head(articles).sym] =
                     pushCapped(@, [t |-> t, v |-> Head(articles).score])]
            ELSE store,
            Tail(articles), t)

articlesFor(articles, sym) == Len(SelectSeq(articles, LAMBDA a : a.sym = sym))

\* the samples one news poll pushes to the info series of sym
samplesFor(articles, sym, t) ==
    [i \in 1..articlesFor(articles, sym) |->
        [t |-> t, v |-> SelectSeq(articles, LAMBDA a : a.sym = sym)[i].score]]

pollNews(articles) ==
    /\ infoStore' = pushArticles(infoStore, articles, now)
    /\ lastOp' = [op |-> "news",
                  evicted |-> SumSeq([i \in 1..Len(SymbolOrder) |->
                      Len(infoStore[SymbolOrder[i]]) + articlesFor(articles, SymbolOrder[i])
                        - Len(infoStore'[SymbolOrder[i]])])]
    /\ sinceRead' = noted("news")
    /\ appended' = logged(NoSamples, [s \in SYMBOLS |-> samplesFor(articles, s, now)])
    /\ UNCHANGED <<now, priceStore, signalCache, lastSpikeAt, impacts, timers,
                   response, pendingReads, client, spikes, history,
                   energyData, lastEnergyFetch>>

\* the DEMO_REPLAY interval: a synthetic price p[sym] and sentiment sc[sym] for
\* every symbol
demoReplay(p, sc) ==
    /\ priceStore' = [s \in SYMBOLS |-> pushCapped(priceStore[s], [t |-> now, v |-> p[s]])]
    /\ infoStore' = [s \in SYMBOLS |-> pushCapped(infoStore[s], [t |-> now, v |-> sc[s]])]
    /\ lastOp' = [op |-> "replay",
                  evicted |-> SumSeq([i \in 1..Len(SymbolOrder) |->
                      Len(priceStore[SymbolOrder[i]]) + 1 - Len(priceStore'[SymbolOrder[i]])
                      + Len(infoStore[SymbolOrder[i]]) + 1 - Len(infoStore'[SymbolOrder[i]])])]
    /\ sinceRead' = noted("replay")
    /\ appended' = logged([s \in SYMBOLS |-> <<[t |-> now, v |-> p[s]]>>],
                          [s \in SYMBOLS |-> <<[t |-> now, v |-> sc[s]]>>])
    /\ UNCHANGED <<now, signalCache, lastSpikeAt, impacts, timers, response,
                   pendingReads, client, spikes, history,
                   energyData, lastEnergyFetch>>

-----------------------------------------------------------------------------
(* fetchEnergyData: the energy cache.  What the cache holds for a symbol is *)
(* the answer of the upstream request it was built from: a positive number  *)
(* naming the answer, 0 where the cache has no entry for the symbol.  An     *)
(* upstream request that fails (network error, status not ok, a body that    *)
(* does not parse) answers 0.                                                *)

ENERGY_CACHE_MS == 3600000

\* let energyData = null
NoEnergy == [cached |-> FALSE, BTC |-> 0, ETH |-> 0]

\* a cache filled by a fetch that got both answers
CachedEnergy == [cached |-> TRUE, BTC |-> 1, ETH |-> 1]

\* energyData && (now - lastEnergyFetch) < ENERGY_CACHE_MS
energyFresh(t) == energyData.cached /\ t - lastEnergyFetch < ENERGY_CACHE_MS

\* energyData = { BTC: {...}, ...(ethData && { ETH: {...} }) }
refreshedEnergy(btc, eth) == [cached |-> TRUE, BTC |-> btc, ETH |-> eth]

\* the cache after a fetch whose upstream requests answered btc and eth: the
\* outer catch keeps the cache when the BTC request fails (the ETH request is
\* then never made)
fetchedEnergy(btc, eth) == IF btc = 0 THEN energyData ELSE refreshedEnergy(btc, eth)

\* lastEnergyFetch = now, the time read when the fetch started
fetchedAt(btc, started) == IF btc = 0 THEN lastEnergyFetch ELSE started

\* GET /energy with a fresh cache; returned: ghost, the body sent
getEnergy ==
    /\ energyFresh(now)
    /\ lastOp' = [op |-> "energy", evicted |-> 0, returned |-> energyData]
    /\ UNCHANGED <<now, priceStore, infoStore, signalCache, lastSpikeAt, impacts,
                   timers, response, pendingReads, sinceRead, client, appended,
                   spikes, history, energyData, lastEnergyFetch>>

\* GET /energy up to the first await of fetchEnergyData
acceptEnergy ==
    /\ ~energyFresh(now)
    /\ Len(pendingReads) < MaxPendingReads
    /\ pendingReads' = Append(pendingReads,
          [atAccept |-> signalCache, started |-> now, route |-> "energy"])
    /\ lastOp' = [op |-> "accept", evicted |-> 0]
    /\ UNCHANGED <<now, priceStore, infoStore, signalCache, lastSpikeAt, impacts,
                   timers, response, sinceRead, client, appended, spikes, history,
                   energyData, lastEnergyFetch>>

\* GET /energy after the awaits of fetchEnergyData, for the pending request i
\* and the upstream answers btc and eth
respondEnergy(i, btc, eth) ==
    /\ pendingReads[i].route = "energy"
    /\ energyData' = fetchedEnergy(btc, eth)
    /\ lastEnergyFetch' = fetchedAt(btc, pendingReads[i].started)
    /\ pendingReads' = SubSeq(pendingReads, 1, i - 1)
                          \o SubSeq(pendingReads, i + 1, Len(pendingReads))
    /\ lastOp' = [op |-> "energy", evicted |-> 0, returned |-> energyData']
    /\ UNCHANGED <<now, priceStore, infoStore, signalCache, lastSpikeAt, impacts,
                   timers, response, sinceRead, client, appended, spikes, history>>

-----------------------------------------------------------------------------
(* GET /signals: the response body, `energy` and `analytics` left out *)

\* SYMBOLS.map((s) => cache[s]).filter(Boolean)
cachedSignalsOf(cache) ==
    SelectSeq([i \in 1..Len(SymbolOrder) |-> cache[SymbolOrder[i]]],
              LAMBDA c : c.symbol # "null")

cachedSignals == cachedSignalsOf(signalCache)

\* a handler that keeps the first instrument's snapshot from before its await
servedCacheTorn(atAccept, atRespond) ==
    [s \in SYMBOLS |-> IF s = SymbolOrder[1] THEN atAccept[s] ELSE atRespond[s]]

\* the cache the body is built from: the handler reads signalCache only after
\* its await, in the synchronous block that sends the body
servedCache(atAccept, atRespond) == atRespond

\* the body res.json sends. Ghosts: between, the handlers that ran since the
\* previous response; acrossWrite, whether the cache was written while the
\* handler awaited
signalsBody(atAccept, atRespond) ==
    [windowSeconds |-> WINDOW_MS \div 1000,
     symbols |-> SymbolOrder,
     data |-> cachedSignalsOf(servedCache(atAccept, atRespond)),
     impacts |-> SliceLast(impacts, IMPACTS_SLICE),
     served |-> TRUE,
     between |-> sinceRead,
     acrossWrite |-> atAccept # atRespond]

\* the handler with fresh energy data: the await resumes before any other
\* handler runs
getSignals ==
    /\ energyFresh(now)
    /\ response' = signalsBody(signalCache, signalCache)
    /\ sinceRead' = {}
    /\ lastOp' = [op |-> "signals", evicted |-> 0]
    /\ UNCHANGED <<now, priceStore, infoStore, signalCache, lastSpikeAt, impacts,
                   timers, pendingReads, client, appended, spikes, history,
                   energyData, lastEnergyFetch>>

\* the handler up to `await fetchEnergyData()` when the energy data must be
\* fetched; atAccept: ghost, the cache when the request was accepted
acceptSignals ==
    /\ ~energyFresh(now)
    /\ Len(pendingReads) < MaxPendingReads
    /\ pendingReads' = Append(pendingReads,
          [atAccept |-> signalCache, started |-> now, route |-> "signals"])
    /\ lastOp' = [op |-> "accept", evicted |-> 0]
    /\ UNCHANGED <<now, priceStore, infoStore, signalCache, lastSpikeAt, impacts,
                   timers, response, sinceRead, client, appended, spikes, history,
                   energyData, lastEnergyFetch>>

\* the handler after its await, for the pending request i (fetches complete
\* in any order) and the upstream answers btc and eth
respondSignals(i, btc, eth) ==
    /\ pendingReads[i].route = "signals"
    /\ energyData' = fetchedEnergy(btc, eth)
    /\ lastEnergyFetch' = fetchedAt(btc, pendingReads[i].started)
    /\ response' = signalsBody(pendingReads[i].atAccept, signalCache)
    /\ pendingReads' = SubSeq(pendingReads, 1, i - 1)
                          \o SubSeq(pendingReads, i + 1, Len(pendingReads))
    /\ sinceRead' = {}
    /\ lastOp' = [op |-> "signals", evicted |-> 0]
    /\ UNCHANGED <<now, priceStore, infoStore, signalCache, lastSpikeAt, impacts,
                   timers, client, appended, spikes, history>>

-----------------------------------------------------------------------------
(* The client (App.jsx): a poll of /signals and the auto-summary.  Of the   *)
(* client's state the model keeps prevRowsRef (<< >> for null),             *)
(* prevImpactCountRef and impactsRef; polls counts the polls answered, up   *)
(* to 1, and regenerated tells whether the last poll called setSummary.     *)

PRICE_JUMP_X1000 == 20
DIV_SHIFT_X100 == 15
INFO_SURGE == 3

\* Math.abs(a - b) >= threshold over published decimals: at the threshold
\* itself the sign of the rounding error of the subtraction decides
atLeast(d, threshold) ==
    IF Abs(d) > threshold THEN {TRUE}
    ELSE IF Abs(d) = threshold THEN {TRUE, FALSE}
    ELSE {FALSE}

\* bySymPrev[r.symbol]: the last row of prevRows with the symbol, << >> if none
rowOf(prevRows, sym) ==
    LET at == {i \in 1..Len(prevRows) : prevRows[i].symbol = sym}
    IN  IF at = {} THEN << >>
        ELSE <<prevRows[CHOOSE i \in at : \A j \in at : j <= i]>>

\* priceJump || divShift || infoSurge for the row r against its previous row p
rowMoved(r, p) ==
    {priceJump \/ divShift \/ r.infoCount1m - p.infoCount1m >= INFO_SURGE :
        priceJump \in atLeast(r.priceDelta1mPct - p.priceDelta1mPct, PRICE_JUMP_X1000),
        divShift \in atLeast(r.divergence - p.divergence, DIV_SHIFT_X100)}

\* the outcomes of the loop of hasMeaningfulMove from the i-th row on
RECURSIVE movedFrom(_, _, _)
movedFrom(prevRows, curRows, i) ==
    IF i > Len(curRows) THEN {FALSE}
    ELSE IF rowOf(prevRows, curRows[i].symbol) = << >> THEN {TRUE}
    ELSE UNION {IF m THEN {TRUE} ELSE movedFrom(prevRows, curRows, i + 1) :
                  m \in rowMoved(curRows[i], rowOf(prevRows, curRows[i].symbol)[1])}

hasMeaningfulMove(prevRows, curRows) ==
    IF Len(prevRows) = 0 THEN {TRUE} ELSE movedFrom(prevRows, curRows, 1)

\* newImpacts.length !== prevImpactCount
impactCountChanged(prevImpactCount, newImpacts) == Len(newImpacts) # prevImpactCount

\* the client after maybeUpdateSummary(newRows, newImpacts)
maybeUpdateSummary(c, newRows, newImpacts) ==
    {[prevRows |-> IF changed THEN newRows ELSE c.prevRows,
      prevImpactCount |-> IF changed THEN Len(newImpacts) ELSE c.prevImpactCount,
      impacts |-> newImpacts,
      polls |-> 1,
      regenerated |-> changed] :
        changed \in {moved \/ impactCountChanged(c.prevImpactCount, newImpacts) :
                        moved \in hasMeaningfulMove(c.prevRows, newRows)}}

\* one poll: the request is served (with fresh energy data) and the client
\* takes the body in
fetchData ==
    \E body \in {signalsBody(signalCache, signalCache)} :
        /\ energyFresh(now)
        /\ response' = body
        /\ sinceRead' = {}
        /\ client' \in maybeUpdateSummary(client, body.data, body.impacts)
        /\ lastOp' = [op |-> "fetch", evicted |-> 0]
        /\ UNCHANGED <<now, priceStore, infoStore, signalCache, lastSpikeAt, impacts,
                       timers, pendingReads, appended, spikes, history,
                       energyData, lastEnergyFetch>>

-----------------------------------------------------------------------------
(* The lead-lag hint of the earlier server variant (unnamed/part_001),     *)
(* computed in its /signals handler.  A correlation is num / sqrt(da * db) *)
(* over the deviations from the means; it is kept as the three integers    *)
(* M * sum(a*b) - sum(a) * sum(b), M * sum(a*a) - sum(a)^2 and the same     *)
(* for b, over the differences divided by their common divisor (a          *)
(* correlation does not change with the scale of either series).           *)

LOOK_MS == 300000
LAGS == <<0 - 60, 0 - 30, 0 - 15, 0, 15, 30, 60>>
LAG_MIN_SAMPLES == 8
LAG_MIN_ALIGNED == 8

\* series.filter(p => p.t >= cutoff)
lookback(series, t) == SelectSeq(series, LAMBDA p : p.t >= t - LOOK_MS)

\* xs.slice(1).map((d, i) => d.v - xs[i].v)
valueDiffs(xs) == [i \in 1..(Len(xs) - 1) |-> xs[i + 1].v - xs[i].v]

\* xs.slice(from, to) for 0 <= from
jsSlice(xs, from, to) == SubSeq(xs, from + 1, Min(to, Len(xs)))

\* Math.round((L / lookMs) * N): the nearest integer, halves upwards
lagShift(L, N) == (2 * L * N + LOOK_MS) \div (2 * LOOK_MS)

\* a correlation is attempted whatever the number of aligned points
qualifiesAlways(M) == TRUE

\* `if (M < 8) continue`
qualifies(M) == M >= LAG_MIN_ALIGNED

RECURSIVE gcdFrom(_, _, _)
gcdFrom(xs, i, g) ==
    IF i > Len(xs) THEN g ELSE gcdFrom(xs, i + 1, gcd(g, Abs(xs[i])))

\* xs divided by the common divisor of its entries
reduced(xs) ==
    IF gcdFrom(xs, 1, 0) = 0 THEN xs
    ELSE [i \in 1..Len(xs) |-> xs[i] \div gcdFrom(xs, 1, 0)]

corrOfReduced(a, b, M) ==
    [num |-> M * SumSeq([i \in 1..M |-> a[i] * b[i]]) - SumSeq(a) * SumSeq(b),
     da |-> M * SumSeq([i \in 1..M |-> a[i] * a[i]]) - SumSeq(a) * SumSeq(a),
     db |-> M * SumSeq([i \in 1..M |-> b[i] * b[i]]) - SumSeq(b) * SumSeq(b)]

\* num, da, db of the loop over the M aligned points
corrOf(a, b, M) == corrOfReduced(reduced(a), reduced(b), M)

\* round(100 * |num| / sqrt(D)) for D > 0, halves upwards
nearest100(n, D) ==
    CHOOSE r \in 0..100 :
        /\ r = 0 \/ (2 * r - 1) * (2 * r - 1) * D <= 40000 * n * n
        /\ 40000 * n * n < (2 * r + 1) * (2 * r + 1) * D

\* Number(corr.toFixed(2)) * 100, corr = (da && db) ? num / Math.sqrt(da * db) : 0.
\* Where the real quotient lies halfway between two hundredths and is no
\* binary fraction, the double lies to one side of it: either hundredth.
roundedCorr100(c) ==
    IF c.da = 0 \/ c.db = 0 \/ c.num = 0 THEN {0}
    ELSE LET n == Abs(c.num)
             D == c.da * c.db
             r == nearest100(n, D)
             sign == IF c.num < 0 THEN 0 - 1 ELSE 1
         IN  IF r >= 1 /\ (2 * r - 1) * (2 * r - 1) * D = 40000 * n * n
                       /\ (2 * r - 1) % 25 # 0
             THEN {sign * r, sign * (r - 1)}
             ELSE {sign * r}

\* the comparison turned round
absLess(c, best100) ==
    /\ c.da # 0 /\ c.db # 0
    /\ 10000 * c.num * c.num < best100 * best100 * c.da * c.db

\* Math.abs(corr) > Math.abs(best.corr), best.corr in hundredths
absGreater(c, best100) ==
    /\ c.da # 0 /\ c.db # 0
    /\ 10000 * c.num * c.num > best100 * best100 * c.da * c.db

\* { bestLagSec: 0, corr: 0 }; attempted: ghost, the lags a correlation was
\* computed for, each with its number of aligned points and its correlation
NeutralLeadLag == [bestLagSec |-> 0, corr |-> 0, attempted |-> {}]

\* the loop over the lags from the i-th on: the results it may end with
RECURSIVE bestFrom(_, _, _, _, _)
bestFrom(p, s, N, i, best) ==
    IF i > Len(LAGS) THEN {best}
    ELSE LET shift == lagShift(LAGS[i], N)
             a == jsSlice(p, Max(0, shift), Min(N, N + shift))
             b == jsSlice(s, Max(0, 0 - shift), Min(N, N - shift))
             M == Min(Len(a), Len(b))
         IN  IF ~qualifies(M) THEN bestFrom(p, s, N, i + 1, best)
             ELSE LET c == corrOf(a, b, M)
                      seen == best.attempted \cup {[lag |-> LAGS[i], M |-> M, c |-> c]}
                  IN  IF absGreater(c, best.corr)
                      THEN UNION {bestFrom(p, s, N, i + 1,
                                      [bestLagSec |-> LAGS[i], corr |-> r,
                                       attempted |-> seen]) :
                                    r \in roundedCorr100(c)}
                      ELSE bestFrom(p, s, N, i + 1, [best EXCEPT !.attempted = seen])

\* the last N of the differences
lastN(xs, N) == SubSeq(xs, Len(xs) - N + 1, Len(xs))

leadLagOf(pDiff, sDiff, N) == bestFrom(lastN(pDiff, N), lastN(sDiff, N), N, 1, NeutralLeadLag)

\* quickLeadLag after its two filters
leadLagIn(ps, is) ==
    IF Len(ps) < LAG_MIN_SAMPLES \/ Len(is) < LAG_MIN_SAMPLES THEN {NeutralLeadLag}
    ELSE leadLagOf(valueDiffs(ps), valueDiffs(is), Min(Len(ps), Len(is)) - 1)

\* the results quickLeadLag(sym) may return at time t
quickLeadLag(sym, t) == leadLagIn(lookback(priceStore[sym], t), lookback(infoStore[sym], t))

\* { ...signalCache[s], leadlag }: the snapshot's fields (none while it is
\* null) and the hint
withLeadLag(snapshot, hint) ==
    [f \in (IF snapshot.symbol = "null" THEN {} ELSE DOMAIN snapshot) \cup {"leadlag"} |->
        IF f = "leadlag" THEN hint ELSE snapshot[f]]

\* GET /signals of the earlier variant: synchronous, a hint per symbol
getSignalsWithLeadLag ==
    /\ \E hints \in [SYMBOLS -> UNION {quickLeadLag(s, now) : s \in SYMBOLS}] :
          /\ \A s \in SYMBOLS : hints[s] \in quickLeadLag(s, now)
          /\ response' =
                [windowSeconds |-> WINDOW_MS \div 1000,
                 symbols |-> SymbolOrder,
                 data |-> [i \in 1..Len(SymbolOrder) |->
                             withLeadLag(signalCache[SymbolOrder[i]], hints[SymbolOrder[i]])],
                 impacts |-> SliceLast(impacts, IMPACTS_SLICE),
                 served |-> TRUE,
                 between |-> sinceRead,
                 acrossWrite |-> FALSE]
    /\ sinceRead' = {}
    /\ lastOp' = [op |-> "signals", evicted |-> 0]
    /\ UNCHANGED <<now, priceStore, infoStore, signalCache, lastSpikeAt, impacts,
                   timers, pendingReads, client, appended, spikes, history,
                   energyData, lastEnergyFetch>>

-----------------------------------------------------------------------------
(* The polling resolver of the earlier server variant (unnamed/part_001):   *)
(* pendingImpacts is held in timers, impactsLog in impacts and              *)
(* lastSentSpikeAt in lastSpikeAt.                                          *)

SPIKE_COOLDOWN_MS == 30000
IMPACTS_LOG_CAP == 50

\* priceAtOrAfter(series, t0): << >> for null, else the price in a 1-tuple
priceAtOrAfter(series, t0) ==
    IF Len(series) = 0 THEN << >>
    ELSE LET at == {i \in 1..Len(series) : series[i].t >= t0}
         IN  IF at = {} THEN <<Last(series).v>>
             ELSE <<series[CHOOSE i \in at : \A j \in at : i <= j].v>>

\* Math.abs(zSent) >= SPIKE_Z && infoCount >= MIN_INFO, out of the cooldown
spikesPolling(sym, zSent, is, t) ==
    /\ isSpike(zSent)
    /\ count1m(is, t) >= MIN_INFO
    /\ t - lastSpikeAt[sym] >= SPIKE_COOLDOWN_MS

\* the symbols this tick pushes a pending impact for, in the order of the loop
pendingNow(pss, iss, zs, t) ==
    SelectSeq(SymbolOrder,
              LAMBDA x : spikesPolling(x, zs[x], iss[x], t)
                           /\ priceAtOrAfter(pss[x], t) # << >>)

\* { sym, t: now, zSentAtSpike: zSent, startPrice }
pendingImpact(sym, ps, zSent, t) ==
    [sym |-> sym, t |-> t, zAt |-> Z100(zSent), p0 |-> priceAtOrAfter(ps, t)[1],
     due |-> t + IMPACT_WINDOW_MS]

\* computeSignals of the earlier variant
computeSignalsPolling ==
    \E pss \in {[s \in SYMBOLS |-> prune(priceStore[s], now)]},
       iss \in {[s \in SYMBOLS |-> prune(infoStore[s], now)]} :
    \E zp \in {[s \in SYMBOLS |-> zOfStore(pss[s], PRICE_UNIT)]},
       zs \in {[s \in SYMBOLS |-> zOfStore(iss[s], SCORE_UNIT)]} :
    \E syms \in {pendingNow(pss, iss, zs, now)} :
    \E pushed \in {[i \in 1..Len(syms) |->
                      pendingImpact(syms[i], pss[syms[i]], zs[syms[i]], now)]} :
        /\ priceStore' = pss
        /\ infoStore' = iss
        /\ signalCache' \in
              {c \in [SYMBOLS -> UNION {Snapshots(s, pss[s], iss[s], zp[s], zs[s], now) :
                                          s \in SYMBOLS}] :
                  \A s \in SYMBOLS : c[s].symbol = s}
        /\ lastSpikeAt' = [s \in SYMBOLS |->
              IF \E i \in 1..Len(syms) : syms[i] = s THEN now ELSE lastSpikeAt[s]]
        /\ timers' = timers \o pushed
        /\ spikes' = spikes \o pushed
        /\ lastOp' = [op |-> "tick",
                      evicted |-> evictedBy(priceStore, pss) + evictedBy(infoStore, iss)]
        /\ sinceRead' = noted("tick")
        /\ UNCHANGED <<now, impacts, response, pendingReads, client, appended,
                       history,
                       energyData, lastEnergyFetch>>

\* now - ev.t >= IMPACT_WINDOW_MS
pendingDue(ev) == now - ev.t >= IMPACT_WINDOW_MS

\* endPrice != null && ev.startPrice
resolvable(ev) == Len(priceStore[ev.sym]) > 0 /\ ev.p0 # 0

\* { sym, t, zSentAtSpike, retPct60s } for the due entry ev
polledRecord(ev) ==
    [sym |-> ev.sym, t |-> ev.t, zSentAtSpike |-> ev.zAt,
     retPct60s |-> retPct1000(ev.p0, Last(priceStore[ev.sym]).v)]

\* impactsLog.push(rec); if (length > 50) splice(0, length - 50)
pushImpactLog(log, rec) ==
    LET pushed == Append(log, rec)
    IN  IF Len(pushed) > IMPACTS_LOG_CAP
        THEN SubSeq(pushed, Len(pushed) - IMPACTS_LOG_CAP + 1, Len(pushed))
        ELSE pushed

\* the records of the due entries, in the order of the loop (from the end)
RECURSIVE polledFrom(_, _)
polledFrom(pending, i) ==
    IF i = 0 THEN << >>
    ELSE (IF pendingDue(pending[i]) /\ resolvable(pending[i])
          THEN <<polledRecord(pending[i])>> ELSE << >>)
         \o polledFrom(pending, i - 1)

RECURSIVE pushAll(_, _, _)
pushAll(log, recs, i) ==
    IF i > Len(recs) THEN log ELSE pushAll(pushImpactLog(log, recs[i]), recs, i + 1)

\* processPendingImpacts
processPendingImpacts ==
    \E recs \in {polledFrom(timers, Len(timers))} :
        /\ impacts' = pushAll(impacts, recs, 1)
        /\ history' = history \o [i \in 1..Len(recs) |-> [rec |-> recs[i], at |-> now]]
        /\ timers' = SelectSeq(timers, LAMBDA ev : ~pendingDue(ev))
        /\ lastOp' = [op |-> "poll", evicted |-> Len(impacts) + Len(recs) - Len(impacts')]
        /\ sinceRead' = noted("poll")
        /\ UNCHANGED <<now, priceStore, infoStore, signalCache, lastSpikeAt, response,
                       pendingReads, client, appended, spikes,
                       energyData, lastEnergyFetch>>

-----------------------------------------------------------------------------
(* The clock *)

AdvanceWithin(d, limit) ==
    /\ now + d <= StartTime + limit
    /\ now' = now + d
    /\ UNCHANGED <<priceStore, infoStore, signalCache, lastSpikeAt, impacts,
                   timers, response, pendingReads, sinceRead, client, appended,
                   spikes, history, lastOp,
                   energyData, lastEnergyFetch>>

Advance(d) == AdvanceWithin(d, MaxElapsed)

-----------------------------------------------------------------------------
(* The server: ticks, trades, page edits and resolution timers *)

NoResponse ==
    [windowSeconds |-> 0, symbols |-> << >>, data |-> << >>, impacts |-> << >>,
     served |-> FALSE, between |-> {}, acrossWrite |-> FALSE]

Init ==
    /\ now = StartTime
    /\ priceStore = [s \in SYMBOLS |-> << >>]
    /\ infoStore = [s \in SYMBOLS |-> <<[t |-> StartTime, v |-> 0]>>]
    /\ signalCache = [s \in SYMBOLS |-> NoSnapshot]
    /\ lastSpikeAt = [s \in SYMBOLS |-> 0]
    /\ impacts = << >>
    /\ timers = << >>
    /\ response = NoResponse
    /\ pendingReads = << >>
    /\ sinceRead = {}
    /\ client = NoClient
    /\ appended = NotKept
    /\ spikes = << >>
    /\ history = << >>
    /\ lastOp = [op |-> "init", evicted |-> 0]
    /\ energyData = NoEnergy
    /\ lastEnergyFetch = 0

Tick == computeSignals

Trade ==
    \E s \in TradeSyms, p \in PriceValues :
        /\ Len(priceStore[s]) < MaxPriceLen
        /\ binanceMessage(s, p)

PageEdit ==
    \E hits \in HitSets, score \in InfoValues :
        /\ now - StartTime <= MaxEditElapsed
        /\ \A s \in hits : Len(infoStore[s]) < MaxInfoLen
        /\ \A s \in hits : Len(infoStore[s]) < WarmLen => score = 0
        /\ wikimediaMessage(hits, score)

Resolve == resolve

Clock == \E d \in AdvanceSteps : Advance(d)

Next == Tick \/ Trade \/ PageEdit \/ Resolve \/ Clock

Spec == Init /\ [][Next]_vars

-----------------------------------------------------------------------------
(* One tick over series of any age: the stores hold what appends can leave *)
(* (samples in timestamp order, none from the future) when the tick runs.  *)

SortedAges(n) ==
    {a \in [1..n -> SampleAges] : \A i \in 1..(n - 1) : a[i] >= a[i + 1]}

\* series whose i-th sample has value base + i
AgedSeries(base) ==
    {[i \in 1..Len(a) |-> [t |-> StartTime - a[i], v |-> base + i]] :
        a \in UNION {SortedAges(n) : n \in 0..MaxSeriesLen}}

\* the values vals, ingested one per second up to StartTime
onePerSecond(vals) ==
    [i \in 1..Len(vals) |-> [t |-> StartTime - 1000 * (Len(vals) - i), v |-> vals[i]]]

PriceScenarios ==
    {onePerSecond(<<100, 100, 100, 101>>),
     onePerSecond(<<100, 100, 100, 100, 101>>),
     onePerSecond(<<100, 100, 100, 100, 100, 101>>),
     onePerSecond(<<100, 100, 100, 100, 100, 99>>)}

\* the values vals of which the last `fresh` arrived one per second up to
\* StartTime and the others a minute and a half ago
agedThenFresh(vals, fresh) ==
    [i \in 1..Len(vals) |->
        [t |-> IF i > Len(vals) - fresh
               THEN StartTime - 1000 * (Len(vals) - i)
               ELSE StartTime - MINUTE_MS - (MINUTE_MS \div 2),
         v |-> vals[i]]]

\* sentiment scores, in units of 0.001: a late jump on a short series, the
\* ramp -1.000, -0.753, ... of step 0.247, a series whose z-score is the
\* square root of 2 (differences -2, -2, -2, 0, 1), and a series whose
\* z-score is 2 (differences -1, -1, 0, 0, 0, 0, 2) with five and with two
\* samples in the last minute
InfoScenarios ==
    {onePerSecond(<<0, 0, 0, 1>>),
     onePerSecond(<<0 - 1000, 0 - 753, 0 - 506, 0 - 259, 0 - 12, 235>>),
     onePerSecond(<<500, 498, 496, 494, 494, 495>>),
     agedThenFresh(<<2, 1, 0, 0, 0, 0, 0, 2>>, 5),
     agedThenFresh(<<2, 1, 0, 0, 0, 0, 0, 2>>, 2)}

InitTick ==
    /\ now = StartTime
    /\ priceStore \in {[s \in SYMBOLS |-> IF s = "BTC" THEN ps ELSE << >>] :
                          ps \in AgedSeries(100) \cup PriceScenarios}
    /\ infoStore \in {[s \in SYMBOLS |-> is] : is \in AgedSeries(0) \cup InfoScenarios}
    /\ signalCache = [s \in SYMBOLS |-> NoSnapshot]
    /\ lastSpikeAt = [s \in SYMBOLS |-> 0]
    /\ impacts = << >>
    /\ timers = << >>
    /\ response = NoResponse
    /\ pendingReads = << >>
    /\ sinceRead = {}
    /\ client = NoClient
    /\ appended = NotKept
    /\ spikes = << >>
    /\ history = << >>
    /\ lastOp = [op |-> "init", evicted |-> 0]
    /\ energyData = NoEnergy
    /\ lastEnergyFetch = 0

NextTick == Tick

SpecTick == InitTick /\ [][NextTick]_vars

-----------------------------------------------------------------------------
(* A burst of ingestion on series near their capacity, with no tick between *)

\* n samples of value v, one per millisecond up to just before StartTime
filled(n, v) == [i \in 1..n |-> [t |-> StartTime - 1 - n + i, v |-> v]]

\* samples of this burst (stamped now) at the end of a series
burstCount(store) ==
    Cardinality({i \in 1..Min(Len(store), MaxBurst) : store[Len(store) + 1 - i].t = now})

burstRoom(store, k) == burstCount(store) + k <= MaxBurst

BurstPrices == {100}
BurstScores == {0}
BurstHits == {{"BTC"}, {"BTC", "ETH"}}
\* the headlines of one news poll, by the symbol each names
headline(x) == [sym |-> x, score |-> 0]
BurstArticles ==
    {<<headline("BTC")>>,
     <<headline("none"), headline("ETH")>>,
     <<headline("BTC"), headline("BTC")>>}

InitBurst ==
    /\ now = StartTime
    /\ \E hp \in BurstHeadrooms :
          priceStore = [s \in SYMBOLS |-> filled(SERIES_HIGH_WATER - hp, 100)]
    /\ \E hi \in BurstHeadrooms :
          infoStore = [s \in SYMBOLS |-> filled(SERIES_HIGH_WATER - hi, 0)]
    /\ signalCache = [s \in SYMBOLS |-> NoSnapshot]
    /\ lastSpikeAt = [s \in SYMBOLS |-> 0]
    /\ impacts = << >>
    /\ timers = << >>
    /\ response = NoResponse
    /\ pendingReads = << >>
    /\ sinceRead = {}
    /\ client = NoClient
    /\ appended = NotKept
    /\ spikes = << >>
    /\ history = << >>
    /\ lastOp = [op |-> "init", evicted |-> 0]
    /\ energyData = NoEnergy
    /\ lastEnergyFetch = 0

BurstTrade ==
    \E s \in SYMBOLS, p \in BurstPrices :
        /\ burstRoom(priceStore[s], 1)
        /\ binanceMessage(s, p)

BurstEdit ==
    \E hits \in BurstHits, score \in BurstScores :
        /\ \A s \in hits : burstRoom(infoStore[s], 1)
        /\ wikimediaMessage(hits, score)

BurstNews ==
    \E articles \in BurstArticles :
        /\ \A s \in SYMBOLS : burstRoom(infoStore[s], articlesFor(articles, s))
        /\ pollNews(articles)

BurstReplay ==
    \E p \in [SYMBOLS -> BurstPrices], sc \in [SYMBOLS -> BurstScores] :
        /\ \A s \in SYMBOLS : burstRoom(priceStore[s], 1) /\ burstRoom(infoStore[s], 1)
        /\ demoReplay(p, sc)

NextBurst == BurstTrade \/ BurstEdit \/ BurstNews \/ BurstReplay

SpecBurst == InitBurst /\ [][NextBurst]_vars

-----------------------------------------------------------------------------
(* The BTC price series near capacity with its oldest samples about to      *)
(* leave the rolling window, under trades, page edits, ticks and a read; a  *)
(* log of the appends is kept.                                              *)

\* the ghost when the log starts with the samples the series hold
keptFrom(ps, is) == [kept |-> TRUE, price |-> ps, info |-> is]

\* the quiet time after which the oldest of 2000 samples is stale
SeriesQuiet == WINDOW_MS - SERIES_HIGH_WATER + 1

InitSeries ==
    /\ now = StartTime
    /\ \E hp \in BurstHeadrooms :
          priceStore = [s \in SYMBOLS |->
              IF s = "BTC" THEN filled(SERIES_HIGH_WATER - hp, 100)
              ELSE <<[t |-> StartTime - SERIES_HIGH_WATER, v |-> 100]>>]
    /\ infoStore = [s \in SYMBOLS |-> <<[t |-> StartTime, v |-> 0]>>]
    /\ signalCache = [s \in SYMBOLS |-> NoSnapshot]
    /\ lastSpikeAt = [s \in SYMBOLS |-> 0]
    /\ impacts = << >>
    /\ timers = << >>
    /\ response = NoResponse
    /\ pendingReads = << >>
    /\ sinceRead = {}
    /\ client = NoClient
    /\ appended = keptFrom(priceStore, infoStore)
    /\ spikes = << >>
    /\ history = << >>
    /\ lastOp = [op |-> "init", evicted |-> 0]
    /\ energyData = CachedEnergy
    /\ lastEnergyFetch = StartTime

SeriesTrade ==
    \E p \in BurstPrices :
        /\ burstRoom(priceStore["BTC"], 1)
        /\ binanceMessage("BTC", p)

SeriesEdit ==
    \E score \in BurstScores :
        /\ burstRoom(infoStore["BTC"], MaxBurst)
        /\ wikimediaMessage({"BTC"}, score)

SeriesClock == now = StartTime /\ AdvanceWithin(SeriesQuiet, MaxSeriesElapsed)

SeriesRead == ~response.served /\ getSignals

NextSeries == SeriesTrade \/ SeriesEdit \/ Tick \/ SeriesClock \/ SeriesRead

SpecSeries == InitSeries /\ [][NextSeries]_vars

-----------------------------------------------------------------------------
(* The two instruments fed apart: page edits about BTC alone or ETH alone,  *)
(* trades of ETH, ticks and resolutions, with both sentiment series one     *)
(* sample short of a z-score; a log of the appends is kept.                 *)

warmInfo == [i \in 1..WarmLen |-> [t |-> StartTime, v |-> 0]]

InitCross ==
    /\ now = StartTime
    /\ priceStore = [s \in SYMBOLS |-> <<[t |-> StartTime, v |-> 100]>>]
    /\ infoStore = [s \in SYMBOLS |-> warmInfo]
    /\ signalCache = [s \in SYMBOLS |-> NoSnapshot]
    /\ lastSpikeAt = [s \in SYMBOLS |-> 0]
    /\ impacts = << >>
    /\ timers = << >>
    /\ response = NoResponse
    /\ pendingReads = << >>
    /\ sinceRead = {}
    /\ client = NoClient
    /\ appended = keptFrom(priceStore, infoStore)
    /\ spikes = << >>
    /\ history = << >>
    /\ lastOp = [op |-> "init", evicted |-> 0]
    /\ energyData = NoEnergy
    /\ lastEnergyFetch = 0

CrossEdit ==
    \E s \in SYMBOLS, score \in InfoValues :
        /\ Len(infoStore[s]) < MaxInfoLen
        /\ wikimediaMessage({s}, score)

CrossTrade ==
    \E p \in PriceValues :
        /\ Len(priceStore["ETH"]) < MaxPriceLen
        /\ binanceMessage("ETH", p)

CrossClock == \E d \in LateSteps : AdvanceWithin(d, MaxCrossElapsed)

NextCross == Tick \/ CrossEdit \/ CrossTrade \/ Resolve \/ CrossClock

SpecCross == InitCross /\ [][NextCross]_vars

-----------------------------------------------------------------------------
(* The lead-lag hint read over BTC series of 7 to 10 samples, one sample a  *)
(* second: prices and scores that rise and fall in steps, alike, opposed,   *)
(* unrelated or not at all.                                                 *)

LagLengths == {7, 8, 9, 10}

PricePatterns ==
    {<<100, 101, 101, 102, 102, 102, 103, 104, 104, 105>>,
     <<100, 100, 100, 100, 100, 100, 100, 100, 100, 100>>,
     <<100, 99, 99, 98, 99, 99, 100, 100, 101, 101>>}

\* scores in units of 0.001, all of them binary fractions
ScorePatterns ==
    {<<0, 125, 125, 250, 250, 250, 375, 500, 500, 625>>,
     <<0, 0, 0, 0, 0, 0, 0, 0, 0, 0>>,
     <<0, 0, 125, 125, 0, 0, 125, 250, 125, 125>>,
     <<0, 0 - 125, 0 - 125, 0 - 250, 0 - 250, 0 - 250, 0 - 375, 0 - 500, 0 - 500, 0 - 625>>}

LagSeries(patterns) ==
    {onePerSecond(SubSeq(pat, 1, n)) : pat \in patterns, n \in LagLengths}

LagPrices == {102}
LagScores == {0}

InitLag ==
    /\ now = StartTime
    /\ \E ps \in LagSeries(PricePatterns) :
          priceStore = [s \in SYMBOLS |-> IF s = "BTC" THEN ps ELSE << >>]
    /\ \E is \in LagSeries(ScorePatterns) :
          infoStore = [s \in SYMBOLS |->
              IF s = "BTC" THEN is ELSE <<[t |-> StartTime, v |-> 0]>>]
    /\ signalCache = [s \in SYMBOLS |-> NoSnapshot]
    /\ lastSpikeAt = [s \in SYMBOLS |-> 0]
    /\ impacts = << >>
    /\ timers = << >>
    /\ response = NoResponse
    /\ pendingReads = << >>
    /\ sinceRead = {}
    /\ client = NoClient
    /\ appended = NotKept
    /\ spikes = << >>
    /\ history = << >>
    /\ lastOp = [op |-> "init", evicted |-> 0]
    /\ energyData = NoEnergy
    /\ lastEnergyFetch = 0

LagTrade ==
    \E p \in LagPrices :
        /\ ~response.served
        /\ Len(priceStore["BTC"]) < MaxLagLen
        /\ binanceMessage("BTC", p)

LagEdit ==
    \E score \in LagScores :
        /\ ~response.served
        /\ Len(infoStore["BTC"]) < MaxLagLen
        /\ wikimediaMessage({"BTC"}, score)

LagRead == ~response.served /\ getSignalsWithLeadLag

NextLag == LagTrade \/ LagEdit \/ LagRead

SpecLag == InitLag /\ [][NextLag]_vars

-----------------------------------------------------------------------------
(* The impact log after many resolutions: the log has seen `fill` spikes   *)
(* of BTC, MIN_SEP_MS apart and all resolved, and BTC sentiment spikes     *)
(* again.                                                                  *)

pastSpike(j, fill) ==
    [sym |-> "BTC",
     t |-> StartTime - IMPACT_WINDOW_MS - MIN_SEP_MS * (fill + 1 - j),
     zAt |-> 179, p0 |-> 100,
     due |-> StartTime - MIN_SEP_MS * (fill + 1 - j)]

pastRecords(fill) ==
    [j \in 1..fill |-> impactRecord(pastSpike(j, fill), <<[t |-> StartTime, v |-> 100]>>)]

spikingInfo == [i \in 1..6 |-> [t |-> StartTime, v |-> IF i = 6 THEN 1 ELSE 0]]

InitLog ==
    /\ now = StartTime
    /\ priceStore = [s \in SYMBOLS |->
          IF s = "BTC" THEN <<[t |-> StartTime, v |-> 100]>> ELSE << >>]
    /\ infoStore = [s \in SYMBOLS |->
          IF s = "BTC" THEN spikingInfo ELSE <<[t |-> StartTime, v |-> 0]>>]
    /\ signalCache = [s \in SYMBOLS |-> NoSnapshot]
    /\ response = NoResponse
    /\ pendingReads = << >>
    /\ sinceRead = {}
    /\ client = NoClient
    /\ appended = NotKept
    /\ timers = << >>
    /\ lastOp = [op |-> "init", evicted |-> 0]
    /\ energyData = CachedEnergy
    /\ lastEnergyFetch = StartTime
    /\ \E fill \in LogFills :
        /\ spikes = [j \in 1..fill |-> pastSpike(j, fill)]
        /\ history = [j \in 1..fill |->
              [rec |-> pastRecords(fill)[j], at |-> pastSpike(j, fill).due]]
        /\ impacts = pastRecords(fill)   \* fill <= IMPACTS_CAP: nothing shifted out yet
        /\ lastSpikeAt = [s \in SYMBOLS |->
              IF s = "BTC" /\ fill > 0 THEN pastSpike(fill, fill).t ELSE 0]

Read == getSignals

NextLog == Tick \/ Resolve \/ Clock \/ Read

SpecLog == InitLog /\ [][NextLog]_vars

-----------------------------------------------------------------------------
(* A client polling the server whose impact log has seen many resolutions *)

ClientPoll == fetchData

ClientClock == \E d \in LateSteps : AdvanceWithin(d, MaxClientElapsed)

NextClient == Tick \/ Resolve \/ ClientClock \/ ClientPoll

SpecClient == InitLog /\ [][NextClient]_vars

-----------------------------------------------------------------------------
(* Spikes with and without a reference price: BTC sentiment spikes while    *)
(* BTC has not traded, last traded at 0 or last traded at 100; ETH          *)
(* sentiment spikes and ETH never trades.                                   *)

GuardPrices == {0, 100}

GuardSeries == {<< >>} \cup {<<[t |-> StartTime - 1000, v |-> p]>> : p \in GuardPrices}

InitGuard ==
    /\ now = StartTime
    /\ \E ps \in GuardSeries :
          priceStore = [s \in SYMBOLS |-> IF s = "BTC" THEN ps ELSE << >>]
    /\ infoStore = [s \in SYMBOLS |-> spikingInfo]
    /\ signalCache = [s \in SYMBOLS |-> NoSnapshot]
    /\ lastSpikeAt = [s \in SYMBOLS |-> 0]
    /\ impacts = << >>
    /\ timers = << >>
    /\ response = NoResponse
    /\ pendingReads = << >>
    /\ sinceRead = {}
    /\ client = NoClient
    /\ appended = NotKept
    /\ spikes = << >>
    /\ history = << >>
    /\ lastOp = [op |-> "init", evicted |-> 0]
    /\ energyData = NoEnergy
    /\ lastEnergyFetch = 0

GuardTrade ==
    \E p \in GuardPrices :
        /\ Len(priceStore["BTC"]) < MaxPriceLen
        /\ binanceMessage("BTC", p)

GuardClock == \E d \in LateSteps : AdvanceWithin(d, MaxGuardElapsed)

NextGuard == Tick \/ GuardTrade \/ Resolve \/ GuardClock

SpecGuard == InitGuard /\ [][NextGuard]_vars

-----------------------------------------------------------------------------
(* The energy cache from start-up, over two cache lifetimes, with upstream  *)
(* requests that fail or answer.                                            *)

\* what one upstream request answers: 0 when it fails, else the answer
UpstreamAnswers == {0, 1}
DailyAnswers == {0, 1, 2}

EnergySteps == {ENERGY_CACHE_MS \div 2, ENERGY_CACHE_MS}

EnergyHit == getEnergy

EnergyAccept == acceptEnergy

EnergyRespond ==
    \E i \in 1..Len(pendingReads), btc \in DailyAnswers, eth \in DailyAnswers :
        respondEnergy(i, btc, eth)

SignalsAccept == acceptSignals

SignalsRespond ==
    \E i \in 1..Len(pendingReads), btc \in DailyAnswers, eth \in DailyAnswers :
        respondSignals(i, btc, eth)

EnergyClock == \E d \in EnergySteps : AdvanceWithin(d, MaxEnergyElapsed)

NextEnergy ==
    EnergyHit \/ EnergyAccept \/ EnergyRespond \/ SignalsAccept \/ SignalsRespond
        \/ EnergyClock

SpecEnergy == Init /\ [][NextEnergy]_vars

-----------------------------------------------------------------------------
(* A late resolution: BTC last traded a second before its sentiment spikes, *)
(* and the clock runs on until that price has left the rolling window.      *)

InitLate ==
    /\ now = StartTime
    /\ priceStore = [s \in SYMBOLS |->
          IF s = "BTC" THEN <<[t |-> StartTime - 1000, v |-> 100]>> ELSE << >>]
    /\ infoStore = [s \in SYMBOLS |->
          IF s = "BTC" THEN spikingInfo ELSE <<[t |-> StartTime, v |-> 0]>>]
    /\ signalCache = [s \in SYMBOLS |-> NoSnapshot]
    /\ lastSpikeAt = [s \in SYMBOLS |-> 0]
    /\ impacts = << >>
    /\ timers = << >>
    /\ response = NoResponse
    /\ pendingReads = << >>
    /\ sinceRead = {}
    /\ client = NoClient
    /\ appended = NotKept
    /\ spikes = << >>
    /\ history = << >>
    /\ lastOp = [op |-> "init", evicted |-> 0]
    /\ energyData = NoEnergy
    /\ lastEnergyFetch = 0

LateClock == \E d \in LateSteps : AdvanceWithin(d, MaxLateElapsed)

NextLate == Tick \/ Trade \/ Resolve \/ LateClock

SpecLate == InitLate /\ [][NextLate]_vars

-----------------------------------------------------------------------------
(* The earlier variant with its polling resolver: BTC last traded 70 s      *)
(* before its sentiment spikes; trades may or may not follow.  ETH has not  *)
(* traded and its sentiment is at rest, or it traded a second ago and its   *)
(* sentiment spikes with BTC's.                                             *)

PollEthTrades == {<< >>, <<[t |-> StartTime - 1000, v |-> 100]>>}

InitPoll ==
    /\ now = StartTime
    /\ \E eth \in PollEthTrades :
        /\ priceStore = [s \in SYMBOLS |->
              IF s = "BTC" THEN <<[t |-> StartTime - 70000, v |-> 100]>> ELSE eth]
        /\ infoStore = [s \in SYMBOLS |->
              IF s = "BTC" \/ eth # << >> THEN spikingInfo
              ELSE <<[t |-> StartTime, v |-> 0]>>]
    /\ signalCache = [s \in SYMBOLS |-> NoSnapshot]
    /\ lastSpikeAt = [s \in SYMBOLS |-> 0]
    /\ impacts = << >>
    /\ timers = << >>
    /\ response = NoResponse
    /\ pendingReads = << >>
    /\ sinceRead = {}
    /\ client = NoClient
    /\ appended = NotKept
    /\ spikes = << >>
    /\ history = << >>
    /\ lastOp = [op |-> "init", evicted |-> 0]
    /\ energyData = NoEnergy
    /\ lastEnergyFetch = 0

PollTick == computeSignalsPolling

PollPending == processPendingImpacts

PollClock == \E d \in LateSteps : AdvanceWithin(d, MaxPollElapsed)

NextPoll == PollTick \/ PollPending \/ Trade \/ PollClock

SpecPoll == InitPoll /\ [][NextPoll]_vars

-----------------------------------------------------------------------------
(* Clients reading /signals from the moment the server listens, while BTC   *)
(* sentiment spikes, trades and page edits arrive and resolutions run.      *)

InitRead ==
    /\ now = StartTime
    /\ priceStore = [s \in SYMBOLS |->
          IF s = "BTC" THEN <<[t |-> StartTime, v |-> 100]>> ELSE << >>]
    /\ infoStore = [s \in SYMBOLS |->
          IF s = "BTC" THEN spikingInfo ELSE <<[t |-> StartTime, v |-> 0]>>]
    /\ signalCache = [s \in SYMBOLS |-> NoSnapshot]
    /\ lastSpikeAt = [s \in SYMBOLS |-> 0]
    /\ impacts = << >>
    /\ timers = << >>
    /\ response = NoResponse
    /\ pendingReads = << >>
    /\ sinceRead = {}
    /\ client = NoClient
    /\ appended = NotKept
    /\ spikes = << >>
    /\ history = << >>
    /\ lastOp = [op |-> "init", evicted |-> 0]
    /\ energyData = NoEnergy
    /\ lastEnergyFetch = 0

ReadClock == \E d \in LateSteps : AdvanceWithin(d, MaxReadElapsed)

ReadAccept == acceptSignals

ReadRespond ==
    \E i \in 1..Len(pendingReads), btc \in UpstreamAnswers, eth \in UpstreamAnswers :
        respondSignals(i, btc, eth)

NextRead == Tick \/ Trade \/ Resolve \/ ReadClock \/ ReadAccept \/ ReadRespond

SpecRead == InitRead /\ [][NextRead]_vars

-----------------------------------------------------------------------------
(* Properties of the spike detector (specification Spec) *)

sameSpike(a, b) == a.sym = b.sym /\ a.t = b.t

\* C1 -- Debounce: any two confirmations of a spike for the same instrument
\* are at least MIN_SEP_MS apart.
DebounceInvariant ==
    \A i, j \in 1..Len(spikes) :
        i < j /\ spikes[i].sym = spikes[j].sym
            => spikes[j].t - spikes[i].t >= MIN_SEP_MS

\* an instrument confirmed twice, the second time as early as the debounce allows
DebounceWitness ==
    \E i, j \in 1..Len(spikes) :
        /\ i < j
        /\ spikes[i].sym = spikes[j].sym
        /\ spikes[j].t - spikes[i].t = MIN_SEP_MS

\* C2 -- Resolution floor: every record of the impact log was pushed at least
\* IMPACT_WINDOW_MS after the detection time it stores.
ResolutionFloor ==
    /\ \A k \in 1..Len(impacts) : \E i \in 1..Len(history) : history[i].rec = impacts[k]
    /\ \A i \in 1..Len(history) : history[i].at - history[i].rec.t >= IMPACT_WINDOW_MS

\* one record pushed exactly at the floor, and one pushed late
ResolutionFloorWitness ==
    /\ \E k \in 1..Len(impacts), i \in 1..Len(history) :
          history[i].rec = impacts[k] /\ history[i].at - impacts[k].t = IMPACT_WINDOW_MS
    /\ \E k \in 1..Len(impacts), i \in 1..Len(history) :
          history[i].rec = impacts[k] /\ history[i].at - impacts[k].t > IMPACT_WINDOW_MS

\* C3 -- At most one outstanding pending spike per instrument: no two pending
\* resolution timers belong to the same instrument.
OnePendingPerInstrument ==
    \A i, j \in 1..Len(timers) : i < j => timers[i].sym # timers[j].sym

\* C4 -- Each pending spike is consumed exactly once: every record pushed
\* carries the instrument, detection time and z-score of a spike that was
\* scheduled, every scheduled spike is either still pending or has produced
\* exactly one record, never both, and the impact log is those records.
ConsumedExactlyOnce ==
    /\ \A i \in 1..Len(history) : \E k \in 1..Len(spikes) :
          /\ hasRefPrice(spikes[k])
          /\ sameSpike(history[i].rec, spikes[k])
          /\ history[i].rec.zSentAtSpike = spikes[k].zAt
    /\ \A k \in 1..Len(spikes) : hasRefPrice(spikes[k]) =>
          Cardinality({i \in 1..Len(history) : sameSpike(history[i].rec, spikes[k])})
            + Cardinality({i \in 1..Len(timers) : timers[i] = spikes[k]}) = 1
    /\ Len(history) <= IMPACTS_CAP => impacts = [i \in 1..Len(history) |-> history[i].rec]

\* one spike resolved into a record while a later one is still pending
ConsumedExactlyOnceWitness ==
    /\ Len(history) > 0
    /\ Len(timers) > 0
    /\ lastOp.op = "resolve"

\* C5 -- Every spike confirmation captures a reference price and schedules a
\* resolution.
EveryConfirmationScheduled ==
    \A k \in 1..Len(spikes) : hasRefPrice(spikes[k])

\* the record's return is 100 * (after - reference) / reference, to the
\* nearest thousandth of a percent
returnOf(r) ==
    /\ r.priceAtSpike > 0
    /\ 2 * Abs(r.retPct60s * r.priceAtSpike
                - (r.priceAfter60s - r.priceAtSpike) * 100000) <= r.priceAtSpike

lastPriceOr(store, none) == IF Len(store) > 0 THEN store[Len(store)].v ELSE none

-----------------------------------------------------------------------------
(* Properties of the energy cache (specification SpecEnergy) *)

\* the energy data d has an entry for sym
energyHas(d, sym) == d.cached /\ d[sym] # 0

\* C33: a failing upstream request never loses cached data: energy data for
\* BTC or ETH that an earlier refresh cached is still in the cache after
\* every later refresh, successful or failed, and in what every later call
\* returns.
FailedRefreshKeepsCachedEnergy ==
    [][\A s \in SYMBOLS :
          energyHas(energyData, s) =>
              /\ energyHas(energyData', s)
              /\ lastOp'.op = "energy" => energyHas(lastOp'.returned, s)]_vars

-----------------------------------------------------------------------------
(* Properties of the reference price (specification SpecGuard) *)

\* rec carries a spiking z-score, a non-zero reference price and the return
\* over it, to 3 decimals
wellFounded(rec) ==
    /\ Abs(rec.zSentAtSpike) >= 120
    /\ rec.priceAtSpike # 0
    /\ 2 * Abs(rec.retPct60s * rec.priceAtSpike
                 - (rec.priceAfter60s - rec.priceAtSpike) * 100000)
          <= Abs(rec.priceAtSpike)

\* C31: every record of the impact log, and every pending resolution, has
\* |zSentAtSpike| >= 1.2 and a non-zero reference price: a resolution never
\* divides by a zero or missing price and retPct60s is the finite return
\* over the reference price.
RecordsHaveReferencePrice ==
    /\ \A i \in 1..Len(timers) : Abs(timers[i].zAt) >= 120 /\ timers[i].p0 # 0
    /\ \A i \in 1..Len(history) : wellFounded(history[i].rec)
    /\ \A i \in 1..Len(impacts) : wellFounded(impacts[i])

\* spikes were confirmed at a reference price of 0 and with no price at all
\* and left no record, and a spike at 100 was resolved after the price fell
\* to 0
ReferencePriceWitness ==
    /\ lastOp.op = "resolve"
    /\ \E k \in 1..Len(spikes) : spikes[k].sym = "BTC" /\ spikes[k].p0 = 0
    /\ \E k \in 1..Len(spikes) : spikes[k].sym = "ETH" /\ spikes[k].p0 = 0
    /\ Last(impacts).priceAtSpike = 100
    /\ Last(priceStore["BTC"]).v = 0
    /\ Len(impacts) < Len(spikes)

-----------------------------------------------------------------------------
(* Properties of a late resolution (specification SpecLate) *)

\* every sample the series still holds is older than the detection
nothingSince(store, detectedAt) == \A i \in 1..Len(store) : store[i].t < detectedAt

\* C15 -- If no price sample has been appended between detection and
\* resolution (pruning may have emptied the price series meanwhile), the
\* resolution still appends a record, and its return is exactly 0.
NoNewPriceGivesZeroReturn ==
    (/\ lastOp.op = "resolve"
     /\ nothingSince(priceStore[Last(history).rec.sym], Last(history).rec.t))
        => /\ Last(history).rec.retPct60s = 0
           /\ Last(history).rec.priceAfter60s = Last(history).rec.priceAtSpike
           /\ impacts # << >>
           /\ Last(impacts) = Last(history).rec

\* a resolution that found the price series emptied by pruning
ZeroReturnWitness ==
    /\ lastOp.op = "resolve"
    /\ priceStore[Last(history).rec.sym] = << >>
    /\ Last(history).rec.priceAtSpike = 100
    /\ Last(history).rec.retPct60s = 0
    /\ Last(impacts) = Last(history).rec
    /\ now - Last(history).rec.t > WINDOW_MS

-----------------------------------------------------------------------------
(* Properties of the rolling series (specifications SpecTick, SpecBurst) *)

allSeries == {priceStore[s] : s \in SYMBOLS} \cup {infoStore[s] : s \in SYMBOLS}

\* C6 -- Eviction invariant: right after a tick has pruned the series at time
\* now, every sample left in every series has t >= now - WINDOW_MS.
EvictionInvariant ==
    lastOp.op = "tick" =>
        \A series \in allSeries : \A i \in 1..Len(series) :
            series[i].t >= now - WINDOW_MS

\* a tick that evicted samples and kept one stamped exactly at the cutoff
EvictionWitness ==
    /\ lastOp.op = "tick"
    /\ lastOp.evicted > 0
    /\ \E series \in allSeries :
          Len(series) > 0 /\ series[1].t = now - WINDOW_MS

\* C7 -- Memory bound: after every ingestion handler each price series and
\* each info series holds at most SERIES_HIGH_WATER samples, and the handler
\* has appended its samples (the newest sample of a series it pushed to is
\* stamped now).
MemoryBound ==
    /\ \A series \in allSeries : Len(series) <= SERIES_HIGH_WATER
    /\ lastOp.op = "binance" => \E s \in SYMBOLS : Last(priceStore[s]).t = now
    /\ lastOp.op = "wikimedia" => \E s \in SYMBOLS : Last(infoStore[s]).t = now
    /\ lastOp.op = "replay" => \A series \in allSeries : Last(series).t = now

\* a burst has pushed a full series over the mark: the handler evicted, and
\* another series sits exactly at the mark
MemoryBoundWitness ==
    /\ lastOp.op \in {"binance", "wikimedia", "news", "replay"}
    /\ lastOp.evicted > 0
    /\ \E series \in allSeries : Len(series) = SERIES_HIGH_WATER
    /\ \E series \in allSeries : Len(series) < SERIES_HIGH_WATER

\* what one ingestion handler did to a series: it appended samples stamped
\* now, and, if and only if that took the series above SERIES_HIGH_WATER, it
\* dropped the SERIES_DROP oldest-by-position samples and nothing else
dropsOldest(old, new, evicted) ==
    /\ Len(old) >= evicted
    /\ Len(new) >= Len(old) - evicted
    /\ SubSeq(new, 1, Len(old) - evicted) = SubSeq(old, evicted + 1, Len(old))
    /\ \A i \in (Len(old) - evicted + 1)..Len(new) : new[i].t = now
    /\ (evicted > 0) <=> (Len(new) + evicted > SERIES_HIGH_WATER)

dropsOldest500(old, new) ==
    dropsOldest(old, new, IF Len(new) < Len(old) THEN SERIES_DROP ELSE 0)

\* C8 (amended) -- When an append takes a series above its high-water mark of
\* 2000 samples, the capacity eviction drops exactly the 500 oldest-by-position
\* samples of that series, and only those.
CapacityDropsOldest500 ==
    [][\A s \in SYMBOLS :
          /\ dropsOldest500(priceStore[s], priceStore'[s])
          /\ dropsOldest500(infoStore[s], infoStore'[s])]_vars

\* a trade took a full price series over the mark; the series now starts at
\* what was its 501st sample
CapacityDropWitness ==
    /\ lastOp.op = "binance"
    /\ lastOp.evicted = SERIES_DROP
    /\ \E s \in SYMBOLS :
          /\ Len(priceStore[s]) = SERIES_HIGH_WATER + 1 - SERIES_DROP
          /\ priceStore[s][1] = filled(SERIES_HIGH_WATER, 100)[SERIES_DROP + 1]

\* a single append that shrank the series dropped half of it (of the
\* Len(old) + 1 samples it held after the push), give or take one
droppedHalf(old, new) ==
    Len(new) < Len(old) =>
        2 * (Len(old) + 1 - Len(new)) \in {Len(old), Len(old) + 1, Len(old) + 2}

\* C8 as claimed -- the capacity eviction drops the oldest half of the series.
CapacityDropsOldestHalf ==
    [][lastOp'.op \in {"binance", "replay"} =>
          \A s \in SYMBOLS :
              /\ droppedHalf(priceStore[s], priceStore'[s])
              /\ droppedHalf(infoStore[s], infoStore'[s])]_vars

\* C10 -- For the price series [100,100,100,100,101], one sample per second,
\* the price z-score computed by the next tick is non-zero.
FiveSamplesGiveZ ==
    (/\ lastOp.op = "tick"
     /\ priceStore["BTC"] = onePerSecond(<<100, 100, 100, 100, 101>>))
        => signalCache["BTC"].zPrice # 0

\* C11 -- When a series holds fewer than 5 samples at a tick, the tick
\* publishes a snapshot whose z-score for that series (zPrice for the price
\* series, zSent for the sentiment series) is exactly 0.
ShortSeriesGiveZeroZ ==
    lastOp.op = "tick" =>
        \A s \in SYMBOLS :
            /\ signalCache[s].symbol = s
            /\ Len(priceStore[s]) < 5 =>
                  /\ signalCache[s].zPrice = 0
                  /\ zOfStore(priceStore[s], PRICE_UNIT).a = 0
            /\ Len(infoStore[s]) < 5 =>
                  /\ signalCache[s].zSent = 0
                  /\ zOfStore(infoStore[s], SCORE_UNIT).a = 0

\* a tick over four prices and four scores whose last one jumps
ShortSeriesWitness ==
    /\ lastOp.op = "tick"
    /\ priceStore["BTC"] = onePerSecond(<<100, 100, 100, 101>>)
    /\ infoStore["BTC"] = onePerSecond(<<0, 0, 0, 1>>)
    /\ signalCache["BTC"].zPrice = 0
    /\ signalCache["BTC"].zSent = 0

\* the first differences of a store, as the Numbers zScore receives, are all
\* the same double
equalDiffs(store, unit) ==
    /\ Len(store) >= 2
    /\ \A i \in 1..(Len(store) - 1) : store[i + 1].v - store[i].v = store[2].v - store[1].v
    /\ \E ds \in {doubleDiffsFrom(firstDiffs(store), unit, 1)} :
          \A i \in 1..Len(ds) : ds[i] = ds[1]

\* C12 -- Whenever all first differences of a series are equal (a constant
\* series in particular), the z-score a tick computes for it is exactly 0.
EqualDifferencesGiveZeroZ ==
    lastOp.op = "tick" =>
        \A s \in SYMBOLS :
            /\ equalDiffs(priceStore[s], PRICE_UNIT) =>
                  /\ signalCache[s].zPrice = 0
                  /\ zOfStore(priceStore[s], PRICE_UNIT).a = 0
            /\ equalDiffs(infoStore[s], SCORE_UNIT) =>
                  /\ signalCache[s].zSent = 0
                  /\ zOfStore(infoStore[s], SCORE_UNIT).a = 0

\* the samples of a series no older than one minute, by position
inLastMinute(series) == {i \in 1..Len(series) : now - series[i].t <= 60000}

\* latest minus earliest value among those samples; 0 for none or one
changeOver(series, W) ==
    IF Cardinality(W) <= 1 THEN 0
    ELSE series[CHOOSE i \in W : \A j \in W : j <= i].v
            - series[CHOOSE i \in W : \A j \in W : i <= j].v

\* C13 -- delta1m is 0 for a series with no sample in the trailing minute, 0
\* for one with a single sample in it, and otherwise the last in-window value
\* minus the first in-window value; the tick publishes it as sentDelta1m.
DeltaOverLastMinute ==
    lastOp.op = "tick" =>
        \A s \in SYMBOLS :
            /\ delta1m(priceStore[s], now)
                  = changeOver(priceStore[s], inLastMinute(priceStore[s]))
            /\ delta1m(infoStore[s], now)
                  = changeOver(infoStore[s], inLastMinute(infoStore[s]))
            /\ signalCache[s].sentDelta1m
                  = changeOver(infoStore[s], inLastMinute(infoStore[s]))

\* a tick over three sentiment samples, the first of them older than a minute
DeltaWitness ==
    /\ lastOp.op = "tick"
    /\ Len(infoStore["BTC"]) = 3
    /\ inLastMinute(infoStore["BTC"]) = {2, 3}
    /\ signalCache["BTC"].sentDelta1m = infoStore["BTC"][3].v - infoStore["BTC"][2].v
    /\ signalCache["BTC"].sentDelta1m # 0
    /\ Len(priceStore["BTC"]) = 2
    /\ inLastMinute(priceStore["BTC"]) = {2}
    /\ delta1m(priceStore["BTC"], now) = 0

\* the published percentage when the change over W is taken relative to the
\* first price in W
pctOfFirstIn(series, W) ==
    IF W = {} THEN 0
    ELSE IF series[CHOOSE i \in W : \A j \in W : i <= j].v = 0 THEN 0
    ELSE RoundDiv(changeOver(series, W) * 100000,
                  series[CHOOSE i \in W : \A j \in W : i <= j].v)

\* C23 -- priceDelta1mPct published by a tick is 100 x (last price - first
\* price of the trailing minute) / first price of the trailing minute, to 3
\* decimals, and 0 when that first price is zero or missing.  Violated: the
\* divisor is the first price of the whole retained series.
PriceDeltaRelativeToMinuteStart ==
    lastOp.op = "tick" =>
        \A s \in SYMBOLS :
            signalCache[s].priceDelta1mPct
              = pctOfFirstIn(priceStore[s], inLastMinute(priceStore[s]))

\* C16, as stated -- A tick at which the sentiment z-score is 2.0 and
\* infoCount1m is 5 publishes a snapshot with strong = true.
SentimentAloneGivesStrong ==
    lastOp.op = "tick" =>
        \A s \in SYMBOLS :
            (signalCache[s].zSent = 200 /\ signalCache[s].infoCount1m = 5)
                => signalCache[s].strong

\* C16 -- A tick at which the sentiment z-score is 2.0, the price z-score is
\* 0 (so that the divergence is 2.0) and infoCount1m is 5 publishes a
\* snapshot with strong = true.
DivergenceTwoGivesStrong ==
    lastOp.op = "tick" =>
        \A s \in SYMBOLS :
            (/\ signalCache[s].zSent = 200
             /\ signalCache[s].zPrice = 0
             /\ signalCache[s].infoCount1m = 5)
                => signalCache[s].strong /\ signalCache[s].divergence = 200

\* a tick over a quiet price series and the sentiment series of z-score 2
DivergenceTwoWitness ==
    /\ lastOp.op = "tick"
    /\ Len(priceStore["BTC"]) = 3
    /\ infoStore["BTC"] = agedThenFresh(<<2, 1, 0, 0, 0, 0, 0, 2>>, 5)
    /\ signalCache["BTC"].zSent = 200
    /\ signalCache["BTC"].zPrice = 0
    /\ signalCache["BTC"].infoCount1m = 5
    /\ signalCache["BTC"].strong

\* |u - v| >= 3/2 for the real numbers u = z.a * sqrt(z.m) / sqrt(z.q) and v
\* likewise, decided on their squares U = X / D, V = Y / D and 9/4 = C / D:
\*   same sign:      (|u| - |v|)^2 >= 9/4  iff  T >= 0 and T^2 >= 4XY
\*   opposite signs: (|u| + |v|)^2 >= 9/4  iff  T >= 0 or  4XY >= T^2
\* with T = X + Y - C.
farApartIn(X, Y, C, sameSign) ==
    IF sameSign
    THEN X + Y - C >= 0 /\ (X + Y - C) * (X + Y - C) >= 4 * X * Y
    ELSE X + Y - C >= 0 \/ 4 * X * Y >= (X + Y - C) * (X + Y - C)

\* the squares as fractions in lowest terms: A1 / q1 and A2 / q2
farApartOf(A1, q1, A2, q2, sameSign) ==
    farApartIn(4 * A1 * q2, 4 * A2 * q1, 9 * q1 * q2, sameSign)

farApart(u, v) ==
    farApartOf((u.a * u.a * u.m) \div gcd(u.a * u.a * u.m, u.q),
               u.q \div gcd(u.a * u.a * u.m, u.q),
               (v.a * v.a * v.m) \div gcd(v.a * v.a * v.m, v.q),
               v.q \div gcd(v.a * v.a * v.m, v.q),
               u.a * v.a > 0)

\* C17 -- In every published snapshot, strong is true exactly when the
\* divergence computed on that tick (zSent - zPrice) has absolute value
\* >= 1.5 and the info samples of the trailing 60 s number >= 3.
StrongIffDivergentAndInformed ==
    lastOp.op = "tick" =>
        \A s \in SYMBOLS :
            signalCache[s].strong <=>
                (/\ farApart(zOfStore(infoStore[s], SCORE_UNIT),
                             zOfStore(priceStore[s], PRICE_UNIT))
                 /\ Cardinality(inLastMinute(infoStore[s])) >= 3)

\* one tick publishes strong for ETH (sentiment z 2, no price) and not for
\* BTC (sentiment z 2, price z 1.79)
StrongWitness ==
    /\ lastOp.op = "tick"
    /\ signalCache["ETH"].strong
    /\ ~signalCache["BTC"].strong
    /\ signalCache["BTC"].zSent = 200
    /\ signalCache["BTC"].zPrice = 179
    /\ signalCache["BTC"].infoCount1m = 5

\* the snapshots published, each with the series it was computed from
justTicked(sym) == lastOp.op = "tick" /\ signalCache[sym].symbol = sym

\* C30 as stated: the divergence field of every published snapshot is its
\* zSent field minus its zPrice field.
DivergenceIsDifferenceOfFields ==
    \A s \in SYMBOLS :
        signalCache[s].symbol = s =>
            signalCache[s].divergence = signalCache[s].zSent - signalCache[s].zPrice

\* C30, amended: the divergence field is the difference of the unrounded
\* z-scores, zSent - zPrice, rounded to 2 decimals on its own; it is within
\* 0.01 of the zSent field minus the zPrice field.
DivergenceIsRoundedDifference ==
    \A s \in SYMBOLS :
        justTicked(s) =>
            LET b == divBounds(zBounds(zOfStore(infoStore[s], SCORE_UNIT)),
                               zBounds(zOfStore(priceStore[s], PRICE_UNIT)))
                d == signalCache[s].divergence
            IN  /\ 100 * d >= b.lo - 50
                /\ 100 * d <= b.hi + 50
                /\ Abs(d - (signalCache[s].zSent - signalCache[s].zPrice)) <= 1

\* a snapshot with zSent 1.41 (1.41421...), zPrice 1.79 (1.78885...) and
\* divergence -0.37 (-0.37464...), where the fields differ by -0.38
DivergenceOffByOneWitness ==
    \E s \in SYMBOLS :
        /\ justTicked(s)
        /\ signalCache[s].zSent = 141
        /\ signalCache[s].zPrice = 179
        /\ signalCache[s].divergence = 0 - 37

-----------------------------------------------------------------------------
(* Properties of the series against the log of appends (specification       *)
(* SpecSeries)                                                               *)

\* store is the last Len(store) samples of log, each as it was appended
isSuffix(store, log) ==
    /\ Len(store) <= Len(log)
    /\ store = SubSeq(log, Len(log) - Len(store) + 1, Len(log))

\* the latest sample of log is the last of store, unless it left the window
keepsLatest(store, log) ==
    (Len(log) > 0 /\ Last(log).t >= now - WINDOW_MS) =>
        (Len(store) > 0 /\ Last(store) = Last(log))

\* C21: under appends, prunes, capacity evictions and reads in any order,
\* each series is a contiguous suffix of the samples appended to it, every
\* sample as it was appended, and the latest appended sample stays in the
\* series as long as it is inside the rolling window.
SeriesAreSuffixesOfAppends ==
    \A s \in SYMBOLS :
        /\ isSuffix(priceStore[s], appended.price[s])
        /\ isSuffix(infoStore[s], appended.info[s])
        /\ keepsLatest(priceStore[s], appended.price[s])
        /\ keepsLatest(infoStore[s], appended.info[s])

\* after a read, a series has lost samples to a prune and to a capacity
\* eviction, another has lost its only sample to a prune
SeriesWitness ==
    /\ response.served
    /\ Len(appended.price["BTC"]) - Len(priceStore["BTC"]) > SERIES_DROP
    /\ Len(appended.price["BTC"]) > SERIES_HIGH_WATER
    /\ priceStore["ETH"] = << >>

-----------------------------------------------------------------------------
(* Properties of the instruments fed apart (specification SpecCross) *)

spikesFor(sym) == SelectSeq(spikes, LAMBDA p : p.sym = sym)

\* what the program holds about one instrument
viewOf(sym) ==
    <<priceStore[sym], infoStore[sym], signalCache[sym], lastSpikeAt[sym],
      spikesFor(sym)>>

\* the step is a compute tick
tickStep == lastOp'.op = "tick" /\ now' = now

\* the tick's outcome for sym is the one computed from the series and the
\* debounce clock of sym and the time alone
tickedAlone(sym) ==
    LET ps == prune(priceStore[sym], now)
        is == prune(infoStore[sym], now)
        zSent == zOfStore(is, SCORE_UNIT)
        spiking == AbsZGe(zSent, SENT_SPIKE_Z_X100)
                     /\ now - lastSpikeAt[sym] >= MIN_SEP_MS
    IN  /\ priceStore'[sym] = ps
        /\ infoStore'[sym] = is
        /\ signalCache'[sym] \in
              Snapshots(sym, ps, is, zOfStore(ps, PRICE_UNIT), zSent, now)
        /\ lastSpikeAt'[sym] = IF spiking THEN now ELSE lastSpikeAt[sym]
        /\ Len(spikesFor(sym)') = Len(spikesFor(sym)) + (IF spiking THEN 1 ELSE 0)
        /\ spiking => Last(spikesFor(sym)').t = now

\* the step appends nothing to the series of sym
nothingAppended(sym) ==
    /\ appended'.price[sym] = appended.price[sym]
    /\ appended'.info[sym] = appended.info[sym]

\* C22: what the program holds about BTC (its series, its snapshot, its
\* debounce clock and its confirmations) changes only on a tick, where the
\* outcome is computed from BTC's own series, BTC's own debounce clock and the
\* time, and on a step that appends a BTC sample; ETH samples, ETH spikes and
\* resolutions leave it as it is.  Two runs with the same clock and the same
\* BTC samples therefore publish the same BTC snapshots and confirm the same
\* BTC spikes.
BtcIndependentOfEth ==
    [][/\ tickStep => tickedAlone("BTC")
       /\ (~tickStep /\ nothingAppended("BTC")) => viewOf("BTC")' = viewOf("BTC")]_vars

\* BTC and ETH spikes confirmed on different ticks of the same millisecond,
\* ETH first
CrossWitness ==
    /\ lastOp.op = "tick"
    /\ Len(spikesFor("BTC")) = 1
    /\ Len(spikesFor("ETH")) = 1
    /\ spikes[1].sym = "ETH"
    /\ spikes[2].t = spikes[1].t
    /\ priceStore["ETH"] # priceStore["BTC"]
    /\ infoStore["ETH"] # infoStore["BTC"]

-----------------------------------------------------------------------------
(* Properties of confirmation and resolution steps (specification Spec) *)

\* the tick finds sym spiking and out of its debounce
qualifying(sym) ==
    /\ AbsZGe(zOfStore(prune(infoStore[sym], now), SCORE_UNIT), SENT_SPIKE_Z_X100)
    /\ now - lastSpikeAt[sym] >= MIN_SEP_MS

\* the step confirms a spike for sym, detected now
confirmedStep(sym) ==
    /\ Len(spikesFor(sym)') = Len(spikesFor(sym)) + 1
    /\ Last(spikesFor(sym)').t = now
    /\ lastSpikeAt'[sym] = now

\* what is held about the confirmations of sym is left as it is
unconfirmedStep(sym) ==
    /\ spikesFor(sym)' = spikesFor(sym)
    /\ lastSpikeAt'[sym] = lastSpikeAt[sym]

\* C26: a tick confirms a spike for an instrument exactly when |zSent| >= 1.2
\* and at least 15000 ms have passed since the instrument's last confirmation
\* (exactly 15000 ms is enough); an instrument never confirmed before is
\* confirmed on its first spiking tick.
ConfirmedExactlyWhenQualifying ==
    [][tickStep =>
        \A s \in SYMBOLS :
            /\ qualifying(s) => confirmedStep(s)
            /\ ~qualifying(s) => unconfirmedStep(s)
            /\ (spikesFor(s) = << >>
                   /\ AbsZGe(zOfStore(prune(infoStore[s], now), SCORE_UNIT), 120))
                  => confirmedStep(s)]_vars

\* an instrument confirmed on its first spiking tick and again exactly
\* MIN_SEP_MS later
ConfirmedAtSeparationWitness ==
    \E s \in SYMBOLS :
        /\ lastOp.op = "tick"
        /\ Len(spikesFor(s)) = 2
        /\ lastSpikeAt[s] = now
        /\ spikesFor(s)[2].t = now
        /\ spikesFor(s)[1].t = now - 15000

\* the step runs a resolution callback
resolveStep == lastOp'.op = "resolve" /\ timers # << >> /\ timers' = Tail(timers)

\* C27: a resolution changes the impact log only: it leaves both series,
\* the snapshots and every lastSpikeAt as they are, so the debounce clock of
\* an instrument is always the detection time of its last confirmation (0
\* before the first), whatever resolutions have run.
ResolutionLeavesDetectionState ==
    /\ [][resolveStep =>
            /\ priceStore' = priceStore
            /\ infoStore' = infoStore
            /\ signalCache' = signalCache
            /\ lastSpikeAt' = lastSpikeAt
            /\ spikes' = spikes
            /\ impacts' # impacts]_vars
    /\ [](\A s \in SYMBOLS :
            lastSpikeAt[s] = IF spikesFor(s) = << >> THEN 0 ELSE Last(spikesFor(s)).t)

\* a resolution has just run for an instrument that was confirmed again
\* since the detection it resolves
ResolutionWitness ==
    /\ lastOp.op = "resolve"
    /\ impacts # << >>
    /\ Len(spikesFor(Last(impacts).sym)) >= 2
    /\ lastSpikeAt[Last(impacts).sym] > Last(impacts).t
    /\ lastSpikeAt[Last(impacts).sym] = Last(spikesFor(Last(impacts).sym)).t

-----------------------------------------------------------------------------
(* Properties of the client's auto-summary (specification SpecClient) *)

\* the step is a poll, not the client's first, that returns an impact record
\* the previous poll did not return
pollWithNewImpact ==
    /\ lastOp'.op = "fetch"
    /\ client.polls > 0
    /\ \E k \in 1..Len(client'.impacts) :
          \A j \in 1..Len(client.impacts) : client.impacts[j] # client'.impacts[k]

\* C29: a poll that returns an impact record the previous poll did not
\* return regenerates the auto-summary, however many impacts the server has
\* logged.
NewImpactRegeneratesSummary ==
    [][pollWithNewImpact => client'.regenerated]_vars

-----------------------------------------------------------------------------
(* Properties of the polling resolver (specification SpecPoll) *)

\* the step is a run of processPendingImpacts that removes an entry
pollStep == lastOp'.op = "poll" /\ now' = now /\ Len(timers') < Len(timers)

\* C28: every entry the polling resolver removes from pendingImpacts
\* produces exactly one record in impactsLog, whatever has happened to the
\* price series since the detection.
EveryPolledEntryLogsOneRecord ==
    [][pollStep =>
         /\ Len(history') - Len(history) = Len(timers) - Len(timers')
         /\ \A i \in 1..Len(timers) :
               pendingDue(timers[i]) =>
                  \E k \in Len(history) + 1..Len(history') :
                      /\ history'[k].rec.sym = timers[i].sym
                      /\ history'[k].rec.t = timers[i].t]_vars

\* the place of the detection of rec among the detections so far
detectionOf(rec) ==
    CHOOSE k \in 1..Len(spikes) : spikes[k].sym = rec.sym /\ spikes[k].t = rec.t

\* C32: the polling resolver appends records in the order in which their
\* spikes were detected: impactsLog is in detection order, its times never
\* decrease, and the last record a read returns is the most recently
\* detected of the resolved spikes.
PolledLogInDetectionOrder ==
    /\ \A i, j \in 1..Len(impacts) :
          i < j => /\ detectionOf(impacts[i]) < detectionOf(impacts[j])
                   /\ impacts[i].t <= impacts[j].t
    /\ impacts # << >> =>
          \A i \in 1..Len(history) :
              detectionOf(history[i].rec)
                <= detectionOf(Last(SliceLast(impacts, IMPACTS_SLICE)))

-----------------------------------------------------------------------------
(* Properties of the lead-lag hint (specification SpecLag) *)

\* the samples of the series no older than the lookback
inLookback(series) == {i \in 1..Len(series) : now - series[i].t <= LOOK_MS}

\* the hint of the last response for the i-th symbol
hintFor(i) == response.data[i].leadlag

\* C24: the hint is the neutral {bestLagSec: 0, corr: 0} whenever the price
\* series or the info series has fewer than 8 samples in the lookback, and no
\* correlation is computed over fewer than 8 aligned points.
ShortSeriesGiveNeutralHint ==
    lastOp.op = "signals" =>
        \A i \in 1..Len(SymbolOrder) :
            /\ (\/ Cardinality(inLookback(priceStore[SymbolOrder[i]])) < 8
                \/ Cardinality(inLookback(infoStore[SymbolOrder[i]])) < 8)
                  => /\ hintFor(i).bestLagSec = 0
                     /\ hintFor(i).corr = 0
                     /\ hintFor(i).attempted = {}
            /\ \A x \in hintFor(i).attempted : x.M >= 8

\* a hint over 8 samples each, neutral with no correlation attempted (7
\* aligned points), and one for a symbol short of samples
NeutralHintWitness ==
    /\ lastOp.op = "signals"
    /\ Len(priceStore["BTC"]) = 8
    /\ Len(infoStore["BTC"]) = 8
    /\ hintFor(1) = NeutralLeadLag
    /\ Len(priceStore["ETH"]) = 0
    /\ hintFor(2) = NeutralLeadLag

\* the correlation is zero: no variance on one side, or no covariance
isZero(c) == c.da = 0 \/ c.db = 0 \/ c.num = 0

\* |x| >= |y| for the correlations x and y
absAtLeast(x, y) ==
    \/ isZero(y)
    \/ ~isZero(x) /\ x.num * x.num * y.da * y.db >= y.num * y.num * x.da * x.db

\* r hundredths is the correlation c rounded to two decimals
isRounded(r, c) ==
    IF isZero(c) THEN r = 0
    ELSE /\ r * c.num >= 0
         /\ (2 * Abs(r) - 1) * (2 * Abs(r) - 1) * c.da * c.db <= 40000 * c.num * c.num
         /\ 40000 * c.num * c.num <= (2 * Abs(r) + 1) * (2 * Abs(r) + 1) * c.da * c.db

\* C25: among the lags a correlation was computed for (those with at least 8
\* aligned points) the hint names one whose correlation is largest in
\* absolute value, with that correlation to two decimals; it is lag 0 with
\* corr 0 when no lag qualifies or every correlation is 0.
HintNamesLargestCorrelation ==
    lastOp.op = "signals" =>
        \A i \in 1..Len(SymbolOrder) :
            IF \A x \in hintFor(i).attempted : isZero(x.c)
            THEN hintFor(i).bestLagSec = 0 /\ hintFor(i).corr = 0
            ELSE \E x \in hintFor(i).attempted :
                    /\ x.lag = hintFor(i).bestLagSec
                    /\ \A y \in hintFor(i).attempted : absAtLeast(x.c, y.c)
                    /\ isRounded(hintFor(i).corr, x.c)

\* a hint with a correlation that is neither 0 nor 1 nor -1, over all seven
\* lags
LargestCorrelationWitness ==
    /\ lastOp.op = "signals"
    /\ Cardinality(hintFor(1).attempted) = Len(LAGS)
    /\ hintFor(1).corr \notin {0, 100, 0 - 100}

-----------------------------------------------------------------------------
(* Properties of /signals reads (specification SpecRead) *)

\* C18: only the compute tick writes signalCache, and a /signals response
\* sent with no compute tick since the previous response carries the same
\* snapshots as the previous one, whatever trades, page edits or resolutions
\* ran in between.
ReadsAgreeBetweenTicks ==
    [][/\ signalCache' # signalCache => lastOp'.op = "tick"
       /\ (/\ lastOp'.op = "signals"
           /\ response' # response
           /\ response.served
           /\ "tick" \notin sinceRead) => response'.data = response.data]_vars

\* a second response after a trade and a resolution but no tick, with snapshots
ReadsAgreeWitness ==
    /\ lastOp.op = "signals"
    /\ {"binance", "resolve"} \subseteq response.between
    /\ "tick" \notin response.between
    /\ Len(response.data) = Len(SymbolOrder)

sameTick(data) ==
    \A i, j \in 1..Len(data) : data[i].updatedAt = data[j].updatedAt

\* C19: a tick replaces the snapshot of every instrument at once, stamped with
\* the tick's time, and a /signals response carries the snapshots exactly as
\* the latest tick before the response left them, all of one tick, also when
\* ticks and trades ran while the handler awaited the energy data.
ReadSeesOneWholeTick ==
    /\ [](lastOp.op = "signals" =>
            /\ response.data = cachedSignals
            /\ sameTick(response.data))
    /\ [][signalCache' # signalCache =>
            \A s \in SYMBOLS : /\ signalCache'[s].symbol = s
                               /\ signalCache'[s].updatedAt = now]_vars

\* a response whose handler awaited across a tick that followed a trade
ReadAcrossTickWitness ==
    /\ lastOp.op = "signals"
    /\ response.acrossWrite
    /\ {"binance", "tick"} \subseteq response.between
    /\ Len(response.data) = Len(SymbolOrder)

\* C20: every /signals response carries a snapshot for every tracked
\* instrument. Violated: before the first tick the cache holds no snapshot and
\* the response carries none.
EveryReadCoversEveryInstrument ==
    lastOp.op = "signals" =>
        \A s \in SYMBOLS : \E i \in 1..Len(response.data) : response.data[i].symbol = s

-----------------------------------------------------------------------------
(* Properties of the impact log (specification SpecLog) *)

\* C9 -- Bounded impact log: after k resolutions the log holds the most recent
\* min(k, 100) records ever pushed, oldest first, and the body of a /signals
\* response carries the last min(k, 10) of them in the same order.
ImpactLogBounded ==
    /\ Len(impacts) = Min(Len(history), IMPACTS_CAP)
    /\ \A i \in 1..Len(impacts) :
          impacts[i] = history[Len(history) - Len(impacts) + i].rec
    /\ lastOp.op = "signals" =>
          /\ Len(response.impacts) = Min(Len(history), IMPACTS_SLICE)
          /\ \A i \in 1..Len(response.impacts) :
                response.impacts[i]
                    = history[Len(history) - Len(response.impacts) + i].rec

\* the log has overflowed, and a read has served its last ten records
ImpactLogWitness ==
    /\ Len(history) > IMPACTS_CAP
    /\ lastOp.op = "signals"
    /\ Len(response.impacts) = IMPACTS_SLICE
    /\ response.impacts[IMPACTS_SLICE] = history[Len(history)].rec

====
